---------------------------- MODULE Spec2Model ----------------------------
(***************************************************************************)
(* A model of the serde-yaml deserializer (src/src/de.rs, src/src/error.rs)*)
(* as a small-step machine.  The engine's call stack is explicit: `stack`  *)
(* holds one frame per Rust function that is waiting for a callee, `ctl`   *)
(* is the call being made or the value being returned, `des` is the arena  *)
(* of DeserializerFromEvents structs, `cells` the arena of `pos` cells     *)
(* they point to and `accs` the arena of SeqAccess / MapAccess structs.    *)
(* Positions are 0-based as in the source; TLA+ sequences are 1-based, so  *)
(* the event at position p of a document is events[p + 1].                *)
(***************************************************************************)
EXTENDS Integers, Sequences, FiniteSets, TLC

VARIABLES
    desers,     \* every Deserializer<'de> created so far; desers[1] is the user's
    task,       \* index of the Deserializer whose de() call is running, 0 if none
    doc,        \* id of the Document the running engine walks
    ctl,        \* engine control: idle, a call, a return, a panic, a stack overflow
    stack,      \* continuation frames of the engine and of the visitors
    cells,      \* pos cells (`&mut usize`)
    des,        \* DeserializerFromEvents structs: [cell, seg, depth]
    accs,       \* SeqAccess / MapAccess structs: [de, len, key]
    entered,    \* history: positions of the containers whose visit_seq / visit_map ran
    target,     \* name of the shape (the type T) the user decodes into
    usage       \* the user's program: "single" (one de call), "iterate" (next and de)

vars == <<desers, task, doc, ctl, stack, cells, des, accs, entered, target, usage>>

---------------------------------------------------------------------------
(* Bounds of the model and constants of the program.                       *)

\* Deserializer::de: remaining_depth: 128
DefaultDepth == 128
\* nesting depth of the deeply nested test documents ("1000" in the tests)
Nesting == 131
\* native call stack available to the engine, in frames of this model
MaxStack == 600
\* number of next() calls the user's program makes
MaxNext == 4

Min(S) == CHOOSE x \in S : \A y \in S : x <= y
Max(S) == CHOOSE x \in S : \A y \in S : x >= y
Last(s) == s[Len(s)]
Front(s) == SubSeq(s, 1, Len(s) - 1)

---------------------------------------------------------------------------
(* Marks, events and errors.                                               *)

Mark(i, l, c) == [index |-> i, line |-> l, column |-> c]
NoMark == Mark(0, 0, 0)
NoTag == <<>>

\* de.rs Event: Alias(usize) | Scalar(Scalar) | SequenceStart | SequenceEnd |
\* MappingStart | MappingEnd, paired with its Mark in Document.events
Event(type, id, tag, style, value, mark) ==
    [type |-> type, id |-> id, tag |-> tag, style |-> style, value |-> value,
     mark |-> mark]

NoErr == [kind |-> "None"]
end_of_stream == [kind |-> "EndOfStream"]
more_than_one_document == [kind |-> "MoreThanOneDocument"]
io_error == [kind |-> "Io"]
recursion_limit_exceeded(mark) == [kind |-> "RecursionLimitExceeded", mark |-> mark]
unknown_anchor(mark) == [kind |-> "UnknownAnchor", mark |-> mark]
libyaml_error(mark) == [kind |-> "Libyaml", mark |-> mark]
shared(arc) == [kind |-> "Shared", inner |-> arc]

NoPos == [some |-> FALSE]
Pos(mark, path) == [some |-> TRUE, mark |-> mark, path |-> path]
\* de::Error::custom and the invalid_type / invalid_value / invalid_length /
\* missing_field constructors built on it: a Message without a location
message(what, unexp, exp) ==
    [kind |-> "Message", what |-> what, unexp |-> unexp, exp |-> exp, pos |-> NoPos]

\* Error::shared(self) -> Arc<ErrorImpl>
error_shared(e) == IF e.kind = "Shared" THEN e.inner ELSE e

\* fix_mark as it would be if every frame claimed the location
fix_mark_overriding(error, mark, path) ==
    IF error.kind = "Message"
    THEN [error EXCEPT !.pos = Pos(mark, path)]
    ELSE error

\* error::fix_mark
fix_mark(error, mark, path) ==
    IF error.kind = "Message" /\ ~error.pos.some
    THEN [error EXCEPT !.pos = Pos(mark, path)]
    ELSE error

\* a Result<T>; Halt is a panic of the program (panic!, unreachable!)
Ok(v) == [ok |-> TRUE, halt |-> FALSE, val |-> v]
Err(e) == [ok |-> FALSE, halt |-> FALSE, err |-> e]
Halt(msg) == [ok |-> FALSE, halt |-> TRUE, msg |-> msg]
\* a method that returns its Result without the map_err
map_err_omitted(res, mark, path) == res

map_err_fix_mark(res, mark, path) ==
    IF res.ok \/ res.halt THEN res ELSE Err(fix_mark(res.err, mark, path))

---------------------------------------------------------------------------
(* The Event Stream Source: what libyaml's parser yields for the test      *)
(* inputs.  A raw event carries the anchor it defines ("" if none) or, for *)
(* an alias, the anchor name it refers to.                                 *)

Raw(type, anchor, tag, style, value, mark) ==
    [type |-> type, anchor |-> anchor, tag |-> tag, style |-> style,
     value |-> value, mark |-> mark]
RScalar(value, style, mark) == Raw("Scalar", "", NoTag, style, value, mark)
RAlias(name, mark) == Raw("Alias", name, NoTag, "Plain", <<>>, mark)
RStart(type, anchor, mark) == Raw(type, anchor, NoTag, "Plain", <<>>, mark)
REnd(type, mark) == Raw(type, "", NoTag, "Plain", <<>>, mark)
L0(i) == Mark(i, 0, i)

NoFail == [some |-> FALSE]
SyntaxFail(mark) == [some |-> TRUE, mark |-> mark]
RawDoc(events, fail) == [events |-> events, fail |-> fail]

\* "[" x n ++ "]" x n   (test_finite_recursion_arrays)
NestedSeqRaw(n) ==
    [i \in 1..(2 * n) |->
        IF i <= n THEN RStart("SequenceStart", "", L0(i - 1))
        ELSE REnd("SequenceEnd", L0(i - 1))]

\* "{'x':" x n ++ "}" x n   (test_finite_recursion_objects)
NestedMapRaw(n) ==
    [i \in 1..(3 * n + 1) |->
        IF i <= 2 * n
        THEN IF i % 2 = 1
             THEN RStart("MappingStart", "", L0(5 * ((i - 1) \div 2)))
             ELSE RScalar(<<"x">>, "SingleQuoted", L0(5 * ((i - 2) \div 2) + 1))
        ELSE IF i = 2 * n + 1
             THEN RScalar(<<>>, "Plain", L0(5 * n))
             ELSE REnd("MappingEnd", L0(5 * n + (i - 2 * n - 2)))]

\* "{V: " x n ++ "U" ++ "}" x n : n nested singleton maps, innermost a unit variant
NestedEnumRaw(n) ==
    [i \in 1..(3 * n + 1) |->
        IF i <= 2 * n
        THEN IF i % 2 = 1
             THEN RStart("MappingStart", "", L0(4 * ((i - 1) \div 2)))
             ELSE RScalar(<<"V">>, "Plain", L0(4 * ((i - 2) \div 2) + 1))
        ELSE IF i = 2 * n + 1
             THEN RScalar(<<"U">>, "Plain", L0(4 * n))
             ELSE REnd("MappingEnd", L0(4 * n + (i - 2 * n - 1)))]

\* "y: " ++ "[" x n ++ "]" x n : a mapping whose only value nests n sequences
SkipRaw(n) ==
    <<RStart("MappingStart", "", L0(0)), RScalar(<<"y">>, "Plain", L0(0))>>
    \o [i \in 1..(2 * n) |->
          IF i <= n THEN RStart("SequenceStart", "", L0(i + 2))
          ELSE REnd("SequenceEnd", L0(i + 2))]
    \o <<REnd("MappingEnd", L0(2 * n + 3))>>

\* "[" x n, never closed: the Source fails at the end of the input
OpenSeqRaw(n) == [i \in 1..n |-> RStart("SequenceStart", "", L0(i - 1))]

DocIds ==
    {"d0", "d1", "dstr", "dtrue", "dnull", "dsyntax", "dunknown", "dignored",
     "dfwd", "dseqN", "dmapN", "denumN", "dselfseq", "dselfmap", "dselfenum",
     "dselfkey", "dsib", "dsibmap", "dalias", "dseqsyntax", "dvmap", "dtuple3",
     "dtag", "dopenN", "dtuple2", "dvempty", "dvone", "dvmap3",
     "daliasseq", "dtagunit", "dvU", "dvN", "dvT", "dvW",
     "daliaskey", "dnested", "dbasic", "dnullstr", "dxnullstr", "dseqvmap",
     "daliasvmap", "dseqkey", "dspan", "dspannest", "dsome", "denums",
     "dskipN", "dmaps"}

RawDocs ==
    [d \in DocIds |->
      CASE d = "d0" -> RawDoc(<<RScalar(<<"0">>, "Plain", Mark(4, 1, 0))>>, NoFail)
        [] d = "d1" -> RawDoc(<<RScalar(<<"1">>, "Plain", Mark(4, 1, 0))>>, NoFail)
        [] d = "dstr" ->
             RawDoc(<<RScalar(<<"s", "t", "r">>, "Plain", Mark(4, 1, 0))>>, NoFail)
        [] d = "dtrue" ->
             RawDoc(<<RScalar(<<"t", "r", "u", "e">>, "Plain", Mark(4, 1, 0))>>, NoFail)
        [] d = "dnull" -> RawDoc(<<RScalar(<<"~">>, "Plain", Mark(4, 1, 0))>>, NoFail)
        \* "---\n]\n"   (test_second_document_syntax_error)
        [] d = "dsyntax" -> RawDoc(<<>>, SyntaxFail(Mark(4, 1, 0)))
        \* "---\n*some\n"   (test_unknown_anchor)
        [] d = "dunknown" -> RawDoc(<<RAlias("some", Mark(4, 1, 0))>>, NoFail)
        \* "b: [*a]\nc: ~\n"   (test_ignored_unknown_anchor)
        [] d = "dignored" ->
             RawDoc(<<RStart("MappingStart", "", L0(0)),
                      RScalar(<<"b">>, "Plain", L0(0)),
                      RStart("SequenceStart", "", L0(3)),
                      RAlias("a", L0(4)),
                      REnd("SequenceEnd", L0(6)),
                      RScalar(<<"c">>, "Plain", Mark(8, 1, 0)),
                      RScalar(<<"~">>, "Plain", Mark(11, 1, 3)),
                      REnd("MappingEnd", Mark(13, 2, 0))>>, NoFail)
        \* "[*a, &a 1]" : the anchor is defined only after the alias
        [] d = "dfwd" ->
             RawDoc(<<RStart("SequenceStart", "", L0(0)),
                      RAlias("a", L0(1)),
                      Raw("Scalar", "a", NoTag, "Plain", <<"1">>, L0(5)),
                      REnd("SequenceEnd", L0(9))>>, NoFail)
        [] d = "dseqN" -> RawDoc(NestedSeqRaw(Nesting), NoFail)
        [] d = "dmapN" -> RawDoc(NestedMapRaw(Nesting), NoFail)
        [] d = "denumN" -> RawDoc(NestedEnumRaw(Nesting), NoFail)
        [] d = "dskipN" -> RawDoc(SkipRaw(Nesting), NoFail)
        \* "&a [*a]"   (test_infinite_recursion_arrays)
        [] d = "dselfseq" ->
             RawDoc(<<RStart("SequenceStart", "a", L0(0)),
                      RAlias("a", L0(4)),
                      REnd("SequenceEnd", L0(6))>>, NoFail)
        \* "&a {'x': *a}"   (test_infinite_recursion_objects)
        [] d = "dselfmap" ->
             RawDoc(<<RStart("MappingStart", "a", L0(0)),
                      RScalar(<<"x">>, "SingleQuoted", L0(4)),
                      RAlias("a", L0(9)),
                      REnd("MappingEnd", L0(11))>>, NoFail)
        \* "&a {V: *a}"
        [] d = "dselfenum" ->
             RawDoc(<<RStart("MappingStart", "a", L0(0)),
                      RScalar(<<"V">>, "Plain", L0(4)),
                      RAlias("a", L0(7)),
                      REnd("MappingEnd", L0(9))>>, NoFail)
        \* "&a {*a : 1}" : the key of the mapping is an alias to the mapping
        [] d = "dselfkey" ->
             RawDoc(<<RStart("MappingStart", "a", L0(0)),
                      RAlias("a", L0(4)),
                      RScalar(<<"1">>, "Plain", L0(9)),
                      REnd("MappingEnd", L0(10))>>, NoFail)
        \* "[[[0]], 1]" : a deep element followed by a shallow sibling
        [] d = "dsib" ->
             RawDoc(<<RStart("SequenceStart", "", L0(0)),
                      RStart("SequenceStart", "", L0(1)),
                      RStart("SequenceStart", "", L0(2)),
                      RScalar(<<"0">>, "Plain", L0(3)),
                      REnd("SequenceEnd", L0(4)),
                      REnd("SequenceEnd", L0(5)),
                      RScalar(<<"1">>, "Plain", L0(8)),
                      REnd("SequenceEnd", L0(9))>>, NoFail)
        \* "{a: [[0]], b: 1, z: [2]}" : siblings in a mapping, one unknown field
        [] d = "dsibmap" ->
             RawDoc(<<RStart("MappingStart", "", L0(0)),
                      RScalar(<<"a">>, "Plain", L0(1)),
                      RStart("SequenceStart", "", L0(4)),
                      RStart("SequenceStart", "", L0(5)),
                      RScalar(<<"0">>, "Plain", L0(6)),
                      REnd("SequenceEnd", L0(7)),
                      REnd("SequenceEnd", L0(8)),
                      RScalar(<<"b">>, "Plain", L0(11)),
                      RScalar(<<"1">>, "Plain", L0(14)),
                      RScalar(<<"z">>, "Plain", L0(17)),
                      RStart("SequenceStart", "", L0(20)),
                      RScalar(<<"2">>, "Plain", L0(21)),
                      REnd("SequenceEnd", L0(22)),
                      REnd("MappingEnd", L0(23))>>, NoFail)
        \* "[&a 0, *a]" : an alias to a scalar
        [] d = "dalias" ->
             RawDoc(<<RStart("SequenceStart", "", L0(0)),
                      Raw("Scalar", "a", NoTag, "Plain", <<"0">>, L0(1)),
                      RAlias("a", L0(7)),
                      REnd("SequenceEnd", L0(9))>>, NoFail)
        \* "[0, [" : a sequence cut short by a Source syntax error
        [] d = "dseqsyntax" ->
             RawDoc(<<RStart("SequenceStart", "", L0(0)),
                      RScalar(<<"0">>, "Plain", L0(1)),
                      RStart("SequenceStart", "", L0(4))>>, SyntaxFail(L0(5)))
        \* "\"V\": 16\n\"other\": 32\n"   (test_variant_map_wrong_size)
        [] d = "dvmap" ->
             RawDoc(<<RStart("MappingStart", "", L0(0)),
                      RScalar(<<"V">>, "DoubleQuoted", L0(0)),
                      RScalar(<<"1", "6">>, "Plain", L0(5)),
                      RScalar(<<"o", "t", "h", "e", "r">>, "DoubleQuoted", Mark(8, 1, 0)),
                      RScalar(<<"3", "2">>, "Plain", Mark(17, 1, 9)),
                      REnd("MappingEnd", Mark(20, 2, 0))>>, NoFail)
        \* "---\n[0, 0, 0]\n"   (test_long_tuple)
        [] d = "dtuple3" ->
             RawDoc(<<RStart("SequenceStart", "", Mark(4, 1, 0)),
                      RScalar(<<"0">>, "Plain", Mark(5, 1, 1)),
                      RScalar(<<"0">>, "Plain", Mark(8, 1, 4)),
                      RScalar(<<"0">>, "Plain", Mark(11, 1, 7)),
                      REnd("SequenceEnd", Mark(12, 1, 8))>>, NoFail)
        \* "!V 0" : a scalar tagged with a variant's name
        [] d = "dtag" ->
             RawDoc(<<Raw("Scalar", "", <<"!", <<"V">>>>, "Plain", <<"0">>, L0(0))>>,
                    NoFail)
        [] d = "dopenN" -> RawDoc(OpenSeqRaw(Nesting), SyntaxFail(L0(Nesting)))
        \* "---\n[0, 0]\n"   (test_short_tuple)
        [] d = "dtuple2" ->
             RawDoc(<<RStart("SequenceStart", "", Mark(4, 1, 0)),
                      RScalar(<<"0">>, "Plain", Mark(5, 1, 1)),
                      RScalar(<<"0">>, "Plain", Mark(8, 1, 4)),
                      REnd("SequenceEnd", Mark(9, 1, 5))>>, NoFail)
        \* "{}" : a mapping without entries
        [] d = "dvempty" ->
             RawDoc(<<RStart("MappingStart", "", L0(0)), REnd("MappingEnd", L0(1))>>,
                    NoFail)
        \* "V: 16\n" : a singleton mapping
        [] d = "dvone" ->
             RawDoc(<<RStart("MappingStart", "", L0(0)),
                      RScalar(<<"V">>, "Plain", L0(0)),
                      RScalar(<<"1", "6">>, "Plain", L0(3)),
                      REnd("MappingEnd", Mark(6, 1, 0))>>, NoFail)
        \* "V: 16\nother: [32]\nthird: ~\n" : three entries
        [] d = "dvmap3" ->
             RawDoc(<<RStart("MappingStart", "", L0(0)),
                      RScalar(<<"V">>, "Plain", L0(0)),
                      RScalar(<<"1", "6">>, "Plain", L0(3)),
                      RScalar(<<"o", "t", "h", "e", "r">>, "Plain", Mark(6, 1, 0)),
                      RStart("SequenceStart", "", Mark(13, 1, 7)),
                      RScalar(<<"3", "2">>, "Plain", Mark(14, 1, 8)),
                      REnd("SequenceEnd", Mark(16, 1, 10)),
                      RScalar(<<"t", "h", "i", "r", "d">>, "Plain", Mark(18, 2, 0)),
                      RScalar(<<"~">>, "Plain", Mark(25, 2, 7)),
                      REnd("MappingEnd", Mark(27, 3, 0))>>, NoFail)
        \* "[&a [0], *a]" : an alias to a sequence
        [] d = "daliasseq" ->
             RawDoc(<<RStart("SequenceStart", "", L0(0)),
                      RStart("SequenceStart", "a", L0(1)),
                      RScalar(<<"0">>, "Plain", L0(5)),
                      REnd("SequenceEnd", L0(6)),
                      RAlias("a", L0(9)),
                      REnd("SequenceEnd", L0(11))>>, NoFail)
        \* "!U" : an empty scalar tagged with the name of a unit variant
        [] d = "dtagunit" ->
             RawDoc(<<Raw("Scalar", "", <<"!", <<"U">>>>, "Plain", <<>>, L0(0))>>, NoFail)
        \* "U", "N", "T", "W" : a plain scalar that is the name of a variant
        [] d = "dvU" -> RawDoc(<<RScalar(<<"U">>, "Plain", L0(0))>>, NoFail)
        [] d = "dvN" -> RawDoc(<<RScalar(<<"N">>, "Plain", L0(0))>>, NoFail)
        [] d = "dvT" -> RawDoc(<<RScalar(<<"T">>, "Plain", L0(0))>>, NoFail)
        [] d = "dvW" -> RawDoc(<<RScalar(<<"W">>, "Plain", L0(0))>>, NoFail)
        \* "[&a V, {*a : 0}]" : the key that names the variant is an alias
        [] d = "daliaskey" ->
             RawDoc(<<RStart("SequenceStart", "", L0(0)),
                      Raw("Scalar", "a", NoTag, "Plain", <<"V">>, L0(1)),
                      RStart("MappingStart", "", L0(7)),
                      RAlias("a", L0(8)),
                      RScalar(<<"0">>, "Plain", L0(13)),
                      REnd("MappingEnd", L0(14)),
                      REnd("SequenceEnd", L0(15))>>, NoFail)
        \* "b:\n  - C:\n      d: fase\n"   (test_incorrect_nested_type)
        [] d = "dnested" ->
             RawDoc(<<RStart("MappingStart", "", Mark(0, 0, 0)),
                      RScalar(<<"b">>, "Plain", Mark(0, 0, 0)),
                      RStart("SequenceStart", "", Mark(5, 1, 2)),
                      RStart("MappingStart", "", Mark(7, 1, 4)),
                      RScalar(<<"C">>, "Plain", Mark(7, 1, 4)),
                      RStart("MappingStart", "", Mark(16, 2, 6)),
                      RScalar(<<"d">>, "Plain", Mark(16, 2, 6)),
                      RScalar(<<"f", "a", "s", "e">>, "Plain", Mark(19, 2, 9)),
                      REnd("MappingEnd", Mark(24, 3, 0)),
                      REnd("MappingEnd", Mark(24, 3, 0)),
                      REnd("SequenceEnd", Mark(24, 3, 0)),
                      REnd("MappingEnd", Mark(24, 3, 0))>>, NoFail)
        \* "---\nv: true\n"   (test_missing_field)
        [] d = "dbasic" ->
             RawDoc(<<RStart("MappingStart", "", Mark(4, 1, 0)),
                      RScalar(<<"v">>, "Plain", Mark(4, 1, 0)),
                      RScalar(<<"t", "r", "u", "e">>, "Plain", Mark(7, 1, 3)),
                      REnd("MappingEnd", Mark(12, 2, 0))>>, NoFail)
        \* "!!null str" : a scalar tagged null that is not a null
        [] d = "dnullstr" ->
             RawDoc(<<Raw("Scalar", "", <<"tag:yaml.org,2002:", <<"n", "u", "l", "l">>>>,
                          "Plain", <<"s", "t", "r">>, L0(0))>>,
                    NoFail)
        \* "x: !!null str"
        [] d = "dxnullstr" ->
             RawDoc(<<RStart("MappingStart", "", L0(0)),
                      RScalar(<<"x">>, "Plain", L0(0)),
                      Raw("Scalar", "", <<"tag:yaml.org,2002:", <<"n", "u", "l", "l">>>>,
                          "Plain", <<"s", "t", "r">>, L0(3)),
                      REnd("MappingEnd", L0(13))>>, NoFail)
        \* "[{V: 0, W: 1}]" : a mapping of two entries as an element
        [] d = "dseqvmap" ->
             RawDoc(<<RStart("SequenceStart", "", L0(0)),
                      RStart("MappingStart", "", L0(1)),
                      RScalar(<<"V">>, "Plain", L0(2)),
                      RScalar(<<"0">>, "Plain", L0(5)),
                      RScalar(<<"W">>, "Plain", L0(8)),
                      RScalar(<<"1">>, "Plain", L0(11)),
                      REnd("MappingEnd", L0(12)),
                      REnd("SequenceEnd", L0(13))>>, NoFail)
        \* "x: {x: ~}" : Some of a struct whose field is None
        [] d = "dsome" ->
             RawDoc(<<RStart("MappingStart", "", L0(0)),
                      RScalar(<<"x">>, "Plain", L0(0)),
                      RStart("MappingStart", "", L0(3)),
                      RScalar(<<"x">>, "Plain", L0(4)),
                      RScalar(<<"~">>, "Plain", L0(7)),
                      REnd("MappingEnd", L0(8)),
                      REnd("MappingEnd", L0(9))>>, NoFail)
        \* "[U, {N: 1}, &a {T: [0, 0]}, *a, !N 1]" : an enum in its scalar,
        \* mapping, aliased and tagged-scalar forms
        [] d = "denums" ->
             RawDoc(<<RStart("SequenceStart", "", L0(0)),
                      RScalar(<<"U">>, "Plain", L0(1)),
                      RStart("MappingStart", "", L0(4)),
                      RScalar(<<"N">>, "Plain", L0(5)),
                      RScalar(<<"1">>, "Plain", L0(8)),
                      REnd("MappingEnd", L0(9)),
                      RStart("MappingStart", "a", L0(12)),
                      RScalar(<<"T">>, "Plain", L0(16)),
                      RStart("SequenceStart", "", L0(19)),
                      RScalar(<<"0">>, "Plain", L0(20)),
                      RScalar(<<"0">>, "Plain", L0(23)),
                      REnd("SequenceEnd", L0(24)),
                      REnd("MappingEnd", L0(25)),
                      RAlias("a", L0(28)),
                      Raw("Scalar", "", <<"!", <<"N">>>>, "Plain", <<"1">>, L0(32)),
                      REnd("SequenceEnd", L0(36))>>, NoFail)
        \* "[&a {V: 0, W: 1}, *a]" : an alias to a mapping of two entries
        [] d = "daliasvmap" ->
             RawDoc(<<RStart("SequenceStart", "", L0(0)),
                      RStart("MappingStart", "a", L0(1)),
                      RScalar(<<"V">>, "Plain", L0(5)),
                      RScalar(<<"0">>, "Plain", L0(8)),
                      RScalar(<<"W">>, "Plain", L0(11)),
                      RScalar(<<"1">>, "Plain", L0(14)),
                      REnd("MappingEnd", L0(15)),
                      RAlias("a", L0(18)),
                      REnd("SequenceEnd", L0(20))>>, NoFail)
        \* "{[0]: 1}" : a mapping whose key is a sequence
        [] d = "dseqkey" ->
             RawDoc(<<RStart("MappingStart", "", L0(0)),
                      RStart("SequenceStart", "", L0(1)),
                      RScalar(<<"0">>, "Plain", L0(2)),
                      REnd("SequenceEnd", L0(3)),
                      RScalar(<<"1">>, "Plain", L0(6)),
                      REnd("MappingEnd", L0(7))>>, NoFail)
        \* " [1, 22, 333]"   (spanned.rs, deserialize_sequence)
        [] d = "dspan" ->
             RawDoc(<<RStart("SequenceStart", "", L0(1)),
                      RScalar(<<"1">>, "Plain", L0(2)),
                      RScalar(<<"2", "2">>, "Plain", L0(5)),
                      RScalar(<<"3", "3", "3">>, "Plain", L0(9)),
                      REnd("SequenceEnd", L0(12))>>, NoFail)
        \* "[[1], [2]]"
        [] d = "dspannest" ->
             RawDoc(<<RStart("SequenceStart", "", L0(0)),
                      RStart("SequenceStart", "", L0(1)),
                      RScalar(<<"1">>, "Plain", L0(2)),
                      REnd("SequenceEnd", L0(3)),
                      RStart("SequenceStart", "", L0(6)),
                      RScalar(<<"2">>, "Plain", L0(7)),
                      REnd("SequenceEnd", L0(8)),
                      REnd("SequenceEnd", L0(9))>>, NoFail)
        \* "[{x: ~}, {x: ~}]"
        [] d = "dmaps" ->
             RawDoc(<<RStart("SequenceStart", "", L0(0)),
                      RStart("MappingStart", "", L0(1)),
                      RScalar(<<"x">>, "Plain", L0(2)),
                      RScalar(<<"~">>, "Plain", L0(5)),
                      REnd("MappingEnd", L0(6)),
                      RStart("MappingStart", "", L0(9)),
                      RScalar(<<"x">>, "Plain", L0(10)),
                      RScalar(<<"~">>, "Plain", L0(13)),
                      REnd("MappingEnd", L0(14)),
                      REnd("SequenceEnd", L0(15))>>, NoFail)]

---------------------------------------------------------------------------
(* The Document Loader (spec section 4.1): buffers one document's events,  *)
(* records each anchor-defining event's index in the alias table and stops *)
(* at the first alias without an earlier anchor, or at the Source's syntax *)
(* error, keeping the error to be raised at the point of use.              *)

DefinesAnchor(raw, j, a) == raw[j].type # "Alias" /\ raw[j].anchor = a
\* id given to the anchor defined by event j: the number of anchors before it
AnchorId(raw, j) ==
    Cardinality({k \in 1..(j - 1) : raw[k].type # "Alias" /\ raw[k].anchor # ""})
AnchorEvent(raw, i) == Max({j \in 1..(i - 1) : DefinesAnchor(raw, j, raw[i].anchor)})
IsUnknownAlias(raw, i) ==
    /\ raw[i].type = "Alias"
    /\ \A j \in 1..(i - 1) : ~DefinesAnchor(raw, j, raw[i].anchor)

LoadDocument(rd) ==
    LET raw == rd.events
        bad == {i \in 1..Len(raw) : IsUnknownAlias(raw, i)}
        cut == IF bad = {} THEN Len(raw) + 1 ELSE Min(bad)
        anchored == {j \in 1..(cut - 1) : raw[j].type # "Alias" /\ raw[j].anchor # ""}
    IN  [events |->
            [i \in 1..(cut - 1) |->
                Event(raw[i].type,
                      IF raw[i].type = "Alias"
                      THEN AnchorId(raw, AnchorEvent(raw, i)) ELSE 0,
                      raw[i].tag, raw[i].style, raw[i].value, raw[i].mark)],
         aliases |->
            [id \in {AnchorId(raw, j) : j \in anchored} |->
                (CHOOSE j \in anchored : AnchorId(raw, j) = id) - 1],
         error |->
            IF bad # {} THEN unknown_anchor(raw[cut].mark)
            ELSE IF rd.fail.some THEN libyaml_error(rd.fail.mark)
            ELSE NoErr]

Documents == [d \in DocIds |-> LoadDocument(RawDocs[d])]

\* Loader::next_document on a stream of which `count` documents were handed out
next_document(stream, count) ==
    IF count < Len(stream) THEN [some |-> TRUE, doc |-> stream[count + 1]]
    ELSE [some |-> FALSE]


---------------------------------------------------------------------------
(* Scalar typing (YAML 1.2 core schema).  Scalar text is a sequence of     *)
(* one-character strings.  Integers are kept as a sign and a magnitude of  *)
(* decimal digits (most significant first, <<>> for zero), so that the     *)
(* 64- and 128-bit ranges of the source are exact.                         *)

DigitOf(c) ==
    CASE c = "0" -> 0 [] c = "1" -> 1 [] c = "2" -> 2 [] c = "3" -> 3
      [] c = "4" -> 4 [] c = "5" -> 5 [] c = "6" -> 6 [] c = "7" -> 7
      [] c = "8" -> 8 [] c = "9" -> 9
      [] c \in {"a", "A"} -> 10 [] c \in {"b", "B"} -> 11
      [] c \in {"c", "C"} -> 12 [] c \in {"d", "D"} -> 13
      [] c \in {"e", "E"} -> 14 [] c \in {"f", "F"} -> 15
      [] OTHER -> 99

is_ascii_digit(c) == DigitOf(c) < 10

Tail2(s, n) == SubSeq(s, n + 1, Len(s))
starts_with(s, p) == Len(s) >= Len(p) /\ SubSeq(s, 1, Len(p)) = p
starts_with_sign(s) == Len(s) >= 1 /\ s[1] \in {"+", "-"}

\* Magnitudes are sequences of decimal digits, most significant first, zero
\* being <<>>.  They are computed in limbs of four decimal digits, taking as
\* many digits of the text at a time as keep the products below 2^31.
ChunkDigits(radix) == CASE radix = 2 -> 16 [] radix = 8 -> 5 [] OTHER -> 4

RECURSIVE PowerOf(_, _)
PowerOf(radix, n) == IF n = 0 THEN 1 ELSE radix * PowerOf(radix, n - 1)

RECURSIVE ChunkValue(_, _, _, _)
\* the value of text[a..b] in the given radix
ChunkValue(text, a, b, radix) ==
    IF b < a THEN 0 ELSE ChunkValue(text, a, b - 1, radix) * radix + DigitOf(text[b])

RECURSIVE MulAddAt(_, _, _, _)
\* the limbs of limbs[1..i] * m + carry
MulAddAt(limbs, i, m, carry) ==
    IF i = 0
    THEN IF carry = 0 THEN <<>>
         ELSE IF carry < 10000 THEN <<carry>>
         ELSE <<carry \div 10000, carry % 10000>>
    ELSE Append(MulAddAt(limbs, i - 1, m, (limbs[i] * m + carry) \div 10000),
                (limbs[i] * m + carry) % 10000)

RECURSIVE LimbsOf(_, _, _)
\* the limbs of the value of the first i digits of text
LimbsOf(text, i, radix) ==
    IF i = 0 THEN <<>>
    ELSE LET n == IF i < ChunkDigits(radix) THEN i ELSE ChunkDigits(radix)
             high == LimbsOf(text, i - n, radix)
         IN  MulAddAt(high, Len(high), PowerOf(radix, n),
                      ChunkValue(text, i - n + 1, i, radix))

LimbDigits(limbs) ==
    [j \in 1..(4 * Len(limbs)) |->
        LET l == limbs[(j + 3) \div 4]
        IN  CASE j % 4 = 1 -> l \div 1000
              [] j % 4 = 2 -> (l \div 100) % 10
              [] j % 4 = 3 -> (l \div 10) % 10
              [] OTHER -> l % 10]

Significant(digits) ==
    SubSeq(digits, Min({j \in 1..Len(digits) : digits[j] # 0} \cup {Len(digits) + 1}),
           Len(digits))

\* the magnitude denoted by the first i digits of text in the given radix
MagOf(text, i, radix) == Significant(LimbDigits(LimbsOf(text, i, radix)))

MagLeq(a, b) ==
    \/ Len(a) < Len(b)
    \/ /\ Len(a) = Len(b)
       /\ \/ a = b
          \/ \E i \in 1..Len(a) : a[i] < b[i] /\ \A j \in 1..(i - 1) : a[j] = b[j]

U64Max == <<1,8,4,4,6,7,4,4,0,7,3,7,0,9,5,5,1,6,1,5>>
I64Max == <<9,2,2,3,3,7,2,0,3,6,8,5,4,7,7,5,8,0,7>>
I64MinMag == <<9,2,2,3,3,7,2,0,3,6,8,5,4,7,7,5,8,0,8>>
U128Max == <<3,4,0,2,8,2,3,6,6,9,2,0,9,3,8,4,6,3,4,6,3,3,7,4,6,0,7,4,3,1,7,6,8,2,1,1,4,5,5>>
I128Max == <<1,7,0,1,4,1,1,8,3,4,6,0,4,6,9,2,3,1,7,3,1,6,8,7,3,0,3,7,1,5,8,8,4,1,0,5,7,2,7>>
I128MinMag == <<1,7,0,1,4,1,1,8,3,4,6,0,4,6,9,2,3,1,7,3,1,6,8,7,3,0,3,7,1,5,8,8,4,1,0,5,7,2,8>>

Num(neg, mag) == [neg |-> neg /\ mag # <<>>, mag |-> mag]
None == [some |-> FALSE]
Some(v) == [some |-> TRUE, v |-> v]

\* <ty>::from_str_radix of the standard library, ty in u64, i64, u128, i128
from_str_radix(ty, src, radix) ==
    LET signed == ty \in {"i64", "i128"}
        lone == Len(src) = 1 /\ src[1] \in {"+", "-"}
        neg == signed /\ Len(src) >= 1 /\ src[1] = "-"
        digits == IF Len(src) >= 1 /\ (src[1] = "+" \/ neg) THEN Tail2(src, 1) ELSE src
        valid == \A i \in 1..Len(digits) : DigitOf(digits[i]) < radix
        mag == MagOf(digits, Len(digits), radix)
        limit == CASE ty = "u64" -> U64Max
                   [] ty = "u128" -> U128Max
                   [] ty = "i64" -> IF neg THEN I64MinMag ELSE I64Max
                   [] ty = "i128" -> IF neg THEN I128MinMag ELSE I128Max
    IN  IF src = <<>> \/ lone \/ ~valid THEN None
        ELSE IF ~MagLeq(mag, limit) THEN None
        ELSE Some(Num(neg, mag))

parse_null(scalar) == scalar = <<"~">> \/ scalar = <<"n", "u", "l", "l">>

parse_bool(scalar) ==
    IF scalar = <<"t", "r", "u", "e">> THEN Some(TRUE)
    ELSE IF scalar = <<"f", "a", "l", "s", "e">> THEN Some(FALSE)
    ELSE None

\* digits_but_not_number as it would be without stripping the sign
digits_but_not_number_unsigned(scalar0) ==
    /\ Len(scalar0) > 1
    /\ scalar0[1] = "0"
    /\ \A i \in 2..Len(scalar0) : is_ascii_digit(scalar0[i])

digits_but_not_number(scalar0) ==
    LET scalar == IF starts_with_sign(scalar0) THEN Tail2(scalar0, 1) ELSE scalar0
    IN  /\ Len(scalar) > 1
        /\ scalar[1] = "0"
        /\ \A i \in 2..Len(scalar) : is_ascii_digit(scalar[i])

\* the radix-prefixed attempt shared by the integer parsers: "stop" when a sign
\* follows the prefix, the value when the digits parse, else fall through
RadixTry(ty, text, prefix, radix) ==
    IF ~starts_with(text, prefix) THEN [stop |-> FALSE, r |-> None]
    ELSE LET rest == Tail2(text, Len(prefix))
         IN  IF starts_with_sign(rest) THEN [stop |-> TRUE, r |-> None]
             ELSE [stop |-> FALSE, r |-> from_str_radix(ty, rest, radix)]

\* the "-0x" / "-0o" / "-0b" attempt: the sign is put back before the digits
NegRadixTry(ty, scalar, prefix, radix) ==
    IF ~starts_with(scalar, prefix) THEN None
    ELSE from_str_radix(ty, <<"-">> \o Tail2(scalar, Len(prefix)), radix)

\* one radix attempt of the chain: its verdict, or the rest of the chain
Try(attempt, otherwise) ==
    IF attempt.stop THEN None ELSE IF attempt.r.some THEN attempt.r ELSE otherwise
OrElse(opt, otherwise) == IF opt.some THEN opt ELSE otherwise

UnsignedChain(scalar, unpositive, ty) ==
    Try(RadixTry(ty, unpositive, <<"0", "x">>, 16),
    Try(RadixTry(ty, unpositive, <<"0", "o">>, 8),
    Try(RadixTry(ty, unpositive, <<"0", "b">>, 2),
        IF starts_with_sign(unpositive) THEN None
        ELSE IF digits_but_not_number(scalar) THEN None
        ELSE from_str_radix(ty, unpositive, 10))))

parse_unsigned_int(scalar, ty) ==
    UnsignedChain(scalar,
                  IF starts_with(scalar, <<"+">>) THEN Tail2(scalar, 1) ELSE scalar, ty)

SignedChain(scalar, unpositive, ty) ==
    IF starts_with(scalar, <<"+">>) /\ starts_with_sign(unpositive) THEN None
    ELSE Try(RadixTry(ty, unpositive, <<"0", "x">>, 16),
         OrElse(NegRadixTry(ty, scalar, <<"-", "0", "x">>, 16),
         Try(RadixTry(ty, unpositive, <<"0", "o">>, 8),
         OrElse(NegRadixTry(ty, scalar, <<"-", "0", "o">>, 8),
         Try(RadixTry(ty, unpositive, <<"0", "b">>, 2),
         OrElse(NegRadixTry(ty, scalar, <<"-", "0", "b">>, 2),
             IF digits_but_not_number(scalar) THEN None
             ELSE from_str_radix(ty, unpositive, 10)))))))

parse_signed_int(scalar, ty) ==
    SignedChain(scalar,
                IF starts_with(scalar, <<"+">>) THEN Tail2(scalar, 1) ELSE scalar, ty)

parse_negative_int(scalar, ty) ==
    OrElse(NegRadixTry(ty, scalar, <<"-", "0", "x">>, 16),
    OrElse(NegRadixTry(ty, scalar, <<"-", "0", "o">>, 8),
    OrElse(NegRadixTry(ty, scalar, <<"-", "0", "b">>, 2),
        IF digits_but_not_number(scalar) THEN None
        ELSE from_str_radix(ty, scalar, 10))))

\* a call of one of the visitor's visit_* methods with a scalar value
Visit(method, v) == [visit |-> method, v |-> v]
VisitIf(method, opt, otherwise) ==
    IF opt.some THEN Some(Visit(method, opt.v)) ELSE otherwise

\* visit_int as it would be if the signed width were tried first
visit_int_signed_first(v) ==
    VisitIf("i64", parse_negative_int(v, "i64"),
    VisitIf("u64", parse_unsigned_int(v, "u64"),
    VisitIf("i128", parse_negative_int(v, "i128"),
    VisitIf("u128", parse_unsigned_int(v, "u128"), None))))

\* visit_int: which visit_* method receives the integer, if the text is one
visit_int(v) ==
    VisitIf("u64", parse_unsigned_int(v, "u64"),
    VisitIf("i64", parse_negative_int(v, "i64"),
    VisitIf("u128", parse_unsigned_int(v, "u128"),
    VisitIf("i128", parse_negative_int(v, "i128"), None))))

\* the decimal grammar of f64::from_str, after its optional sign
IsDigits(s) == \A i \in 1..Len(s) : is_ascii_digit(s[i])
IndexIn(s, set) ==
    IF \E i \in 1..Len(s) : s[i] \in set
    THEN Min({i \in 1..Len(s) : s[i] \in set}) ELSE 0
EqualsIgnoreCase(s, lower, upper) ==
    /\ Len(s) = Len(lower)
    /\ \A i \in 1..Len(s) : s[i] = lower[i] \/ s[i] = upper[i]
FirstNonZero(s) == Min({i \in 1..Len(s) : s[i] # "0"} \cup {Len(s) + 1})
StripZeros(s) == SubSeq(s, FirstNonZero(s), Len(s))
RECURSIVE SmallNat(_, _)
SmallNat(s, i) == IF i = 0 THEN 0 ELSE 10 * SmallNat(s, i - 1) + DigitOf(s[i])
\* the longest exponent whose value is still computed; longer ones are "huge"
MaxExpDigits == 5
\* f64::MAX is 1.7976931348623157e308: larger magnitudes parse to infinity
F64MaxOrder == 309
F64MaxDigits == <<"1","7","9","7","6","9","3","1","3","4","8","6","2","3","1","5","8">>
DigitsLess(a, b) ==
    \E i \in 1..Len(b) :
        /\ \A j \in 1..(i - 1) : j <= Len(a) /\ a[j] = b[j]
        /\ (i > Len(a) \/ DigitOf(a[i]) < DigitOf(b[i]))

\* the value 0.d1d2.. * 10^order of significant digits digs: does it overflow f64
F64Overflows(digs, order, huge, expNeg) ==
    /\ digs # <<>>
    /\ \/ huge /\ ~expNeg
       \/ ~huge /\ order > F64MaxOrder
       \/ ~huge /\ order = F64MaxOrder /\ ~DigitsLess(digs, F64MaxDigits \o <<"1">>)

\* int "." frac "e" [sign] expSig, the digits of the exponent without leading zeros
F64Class(int, frac, expNeg, expSig) ==
    IF F64Overflows(StripZeros(int \o frac),
                    Len(int) - (FirstNonZero(int \o frac) - 1)
                        + (IF Len(expSig) > MaxExpDigits THEN 0
                           ELSE IF expNeg THEN 0 - SmallNat(expSig, Len(expSig))
                           ELSE SmallNat(expSig, Len(expSig))),
                    Len(expSig) > MaxExpDigits, expNeg)
    THEN "nonfinite" ELSE "finite"

F64Exponent(int, frac, hasExp, expo, expDigits) ==
    IF ~(IsDigits(int) /\ IsDigits(frac) /\ Len(int) + Len(frac) >= 1) THEN "none"
    ELSE IF hasExp /\ ~(IsDigits(expDigits) /\ Len(expDigits) >= 1) THEN "none"
    ELSE F64Class(int, frac, Len(expo) >= 1 /\ expo[1] = "-", StripZeros(expDigits))

F64Mantissa(mant, dot, hasExp, expo) ==
    F64Exponent(IF dot = 0 THEN mant ELSE SubSeq(mant, 1, dot - 1),
                IF dot = 0 THEN <<>> ELSE Tail2(mant, dot),
                hasExp, expo,
                IF starts_with_sign(expo) THEN Tail2(expo, 1) ELSE expo)

F64Split(body, e) ==
    F64Mantissa(IF e = 0 THEN body ELSE SubSeq(body, 1, e - 1),
                IndexIn(IF e = 0 THEN body ELSE SubSeq(body, 1, e - 1), {"."}),
                e # 0,
                IF e = 0 THEN <<>> ELSE Tail2(body, e))

F64Body(body) ==
    IF \/ EqualsIgnoreCase(body, <<"i","n","f">>, <<"I","N","F">>)
       \/ EqualsIgnoreCase(body, <<"i","n","f","i","n","i","t","y">>,
                                 <<"I","N","F","I","N","I","T","Y">>)
       \/ EqualsIgnoreCase(body, <<"n","a","n">>, <<"N","A","N">>)
    THEN "nonfinite"
    ELSE F64Split(body, IndexIn(body, {"e", "E"}))

\* text.parse::<f64>() : "none" (no parse), "finite", or "nonfinite" (inf, NaN)
parse_f64_std(text) ==
    F64Body(IF starts_with_sign(text) THEN Tail2(text, 1) ELSE text)

\* parse_f64 as it would be if the specials were matched in any letter case
F64Of_anycase(scalar, unpositive) ==
    IF starts_with(scalar, <<"+">>) /\ starts_with_sign(unpositive) THEN None
    ELSE IF EqualsIgnoreCase(unpositive, <<".","i","n","f">>, <<".","I","N","F">>)
    THEN Some([class |-> "inf", text |-> <<>>])
    ELSE IF EqualsIgnoreCase(scalar, <<"-",".","i","n","f">>, <<"-",".","I","N","F">>)
    THEN Some([class |-> "-inf", text |-> <<>>])
    ELSE IF EqualsIgnoreCase(scalar, <<".","n","a","n">>, <<".","N","A","N">>)
    THEN Some([class |-> "nan", text |-> <<>>])
    ELSE IF parse_f64_std(unpositive) = "finite"
    THEN Some([class |-> "finite", text |-> unpositive])
    ELSE None

F64Of(scalar, unpositive) ==
    IF starts_with(scalar, <<"+">>) /\ starts_with_sign(unpositive) THEN None
    ELSE IF unpositive \in {<<".","i","n","f">>, <<".","I","n","f">>, <<".","I","N","F">>}
    THEN Some([class |-> "inf", text |-> <<>>])
    ELSE IF scalar \in {<<"-",".","i","n","f">>, <<"-",".","I","n","f">>,
                        <<"-",".","I","N","F">>}
    THEN Some([class |-> "-inf", text |-> <<>>])
    ELSE IF scalar \in {<<".","n","a","n">>, <<".","N","a","N">>, <<".","N","A","N">>}
    THEN Some([class |-> "nan", text |-> <<>>])
    ELSE IF parse_f64_std(unpositive) = "finite"
    THEN Some([class |-> "finite", text |-> unpositive])
    ELSE None

parse_f64(scalar) ==
    F64Of(scalar, IF starts_with(scalar, <<"+">>) THEN Tail2(scalar, 1) ELSE scalar)

TagBOOL == <<"tag:yaml.org,2002:", <<"b", "o", "o", "l">>>>
TagINT == <<"tag:yaml.org,2002:", <<"i", "n", "t">>>>
TagFLOAT == <<"tag:yaml.org,2002:", <<"f", "l", "o", "a", "t">>>>
TagNULL == <<"tag:yaml.org,2002:", <<"n", "u", "l", "l">>>>

OrVisit(opt, otherwise) == IF opt.some THEN opt.v ELSE otherwise

\* visit_untagged_scalar: the visit_* call chosen for a plain untagged scalar
visit_untagged_scalar(v) ==
    IF v = <<>> \/ parse_null(v) THEN Visit("unit", <<>>)
    ELSE OrVisit(VisitIf("bool", parse_bool(v), None),
         OrVisit(visit_int(v),
         OrVisit(IF digits_but_not_number(v) THEN None
                 ELSE VisitIf("f64", parse_f64(v), None),
                 Visit("str", v))))

\* a scalar that does not parse under its core tag, as it would be if
\* automatic typing were the fallback
OrInvalid_fallback(opt, v, exp) ==
    IF opt.some THEN Ok(opt.v) ELSE Ok(visit_untagged_scalar(v))

\* a scalar that does not parse under its core tag: invalid_value
OrInvalid(opt, v, exp) ==
    IF opt.some THEN Ok(opt.v) ELSE Err(message("invalid value", Visit("str", v), exp))

\* visit_scalar as it would be if the style were not consulted
scalar_visit_any_style(scalar) ==
    CASE scalar.tag = TagBOOL ->
            OrInvalid(VisitIf("bool", parse_bool(scalar.value), None), scalar.value,
                      "a boolean")
      [] scalar.tag = TagINT -> OrInvalid(visit_int(scalar.value), scalar.value, "an integer")
      [] scalar.tag = TagFLOAT ->
            OrInvalid(VisitIf("f64", parse_f64(scalar.value), None), scalar.value, "a float")
      [] scalar.tag = TagNULL ->
            OrInvalid(IF parse_null(scalar.value) THEN Some(Visit("unit", <<>>)) ELSE None,
                      scalar.value, "null")
      [] scalar.tag = NoTag -> Ok(visit_untagged_scalar(scalar.value))
      [] OTHER -> Ok(Visit("str", scalar.value))

\* visit_scalar up to the visitor call: the visit_* call it makes, or the
\* invalid_value error of a scalar that does not parse under its core tag
scalar_visit(scalar) ==
    CASE scalar.tag = TagBOOL ->
            OrInvalid(VisitIf("bool", parse_bool(scalar.value), None), scalar.value,
                      "a boolean")
      [] scalar.tag = TagINT -> OrInvalid(visit_int(scalar.value), scalar.value, "an integer")
      [] scalar.tag = TagFLOAT ->
            OrInvalid(VisitIf("f64", parse_f64(scalar.value), None), scalar.value, "a float")
      [] scalar.tag = TagNULL ->
            OrInvalid(IF parse_null(scalar.value) THEN Some(Visit("unit", <<>>)) ELSE None,
                      scalar.value, "null")
      [] scalar.tag = NoTag /\ scalar.style = "Plain" ->
            Ok(visit_untagged_scalar(scalar.value))
      [] OTHER -> Ok(Visit("str", scalar.value))

---------------------------------------------------------------------------
(* Shapes: the types T the user decodes into, i.e. the visitors that serde *)
(* and serde_derive generate for them (the Visitor protocol of section 6). *)
(* `exp` is the visitor's "expecting" text.                                *)

Field(name, ty) == [name |-> name, ty |-> ty]
Variant(name, kind, ty) == [name |-> name, kind |-> kind, ty |-> ty]

TypeNames ==
    {"usize", "i64", "String", "bool", "unit", "Ignored", "S", "OptS", "Wrapper",
     "E", "Rec", "Sib", "VecVecUsize", "VecUsize", "SibMap", "Tuple2", "L", "VecL",
     "Tuple1", "Tuple3", "Take0", "Take1", "Take2", "SeqE",
     "E4", "StrE", "A", "VecB", "B", "Cs", "Basic", "VecE",
     "IgnE", "i16", "SpUsize", "VecSpUsize", "SpVecSpUsize", "SpVecUsize",
     "VecSpVecUsize", "SpVecSpVecUsize", "SpBasic", "VecE4",
     "SpVecAndVec", "SpS", "VecSpS", "NestedSp", "f64", "i128", "u128"}

Types ==
    [n \in TypeNames |->
      CASE n = "usize" -> [k |-> "u64", exp |-> "usize"]
        [] n = "i64" -> [k |-> "i64", exp |-> "i64"]
        [] n = "i128" -> [k |-> "i128", exp |-> "i128"]
        [] n = "u128" -> [k |-> "u128", exp |-> "u128"]
        [] n = "f64" -> [k |-> "f64", exp |-> "f64"]
        \* i16, which deserialize_i16 hands to deserialize_i64   (test_incorrect_type)
        [] n = "i16" -> [k |-> "i64", exp |-> "i16"]
        [] n = "String" -> [k |-> "str", exp |-> "a string"]
        \* Spanned<T>: deserialize_struct(spanned::NAME, spanned::FIELDS, ..)
        [] n = "SpUsize" -> [k |-> "spanned", exp |-> "A spanned usize", of |-> "usize"]
        [] n = "VecSpUsize" -> [k |-> "seq", exp |-> "a sequence", of |-> "SpUsize"]
        \* Spanned<Vec<Spanned<i32>>>   (spanned.rs, deserialize_sequence)
        [] n = "SpVecSpUsize" -> [k |-> "spanned", exp |-> "A spanned Vec",
                                  of |-> "VecSpUsize"]
        [] n = "SpVecUsize" -> [k |-> "spanned", exp |-> "A spanned Vec", of |-> "VecUsize"]
        [] n = "VecSpVecUsize" -> [k |-> "seq", exp |-> "a sequence", of |-> "SpVecUsize"]
        [] n = "SpVecSpVecUsize" -> [k |-> "spanned", exp |-> "A spanned Vec",
                                     of |-> "VecSpVecUsize"]
        \* (Spanned<Vec<usize>>, Vec<usize>)
        [] n = "SpVecAndVec" -> [k |-> "tuple", exp |-> "a tuple of size 2",
                                 of |-> <<"SpVecUsize", "VecUsize">>]
        [] n = "SpBasic" -> [k |-> "spanned", exp |-> "A spanned Basic", of |-> "Basic"]
        \* Spanned<S>, Vec<Spanned<S>> and struct Nested { x: Spanned<S> }
        [] n = "SpS" -> [k |-> "spanned", exp |-> "A spanned S", of |-> "S"]
        [] n = "VecSpS" -> [k |-> "seq", exp |-> "a sequence", of |-> "SpS"]
        [] n = "NestedSp" -> [k |-> "struct", exp |-> "struct Nested", ident |-> "S.field",
                              fields |-> <<Field(<<"x">>, "SpS")>>]
        [] n = "bool" -> [k |-> "bool", exp |-> "a boolean"]
        [] n = "unit" -> [k |-> "unit", exp |-> "unit"]
        [] n = "Ignored" -> [k |-> "ignored", exp |-> "anything at all"]
        \* struct S { x: Option<Box<S>> }   (test_finite_recursion_*)
        [] n = "S" -> [k |-> "struct", exp |-> "struct S", ident |-> "S.field",
                       fields |-> <<Field(<<"x">>, "OptS")>>]
        [] n = "OptS" -> [k |-> "option", exp |-> "option", of |-> "S"]
        \* struct Wrapper { c: () }   (test_ignored_unknown_anchor)
        [] n = "Wrapper" -> [k |-> "struct", exp |-> "struct Wrapper", ident |-> "Wrapper.field",
                             fields |-> <<Field(<<"c">>, "unit")>>]
        \* enum E { V(usize) }   (test_variant_map_wrong_size)
        [] n = "E" -> [k |-> "enum", exp |-> "enum E", ident |-> "E.variant",
                       variants |-> <<Variant(<<"V">>, "newtype", "usize")>>]
        \* enum Rec { V(Box<Rec>), U }
        [] n = "Rec" -> [k |-> "enum", exp |-> "enum Rec", ident |-> "Rec.variant",
                         variants |-> <<Variant(<<"V">>, "newtype", "Rec"),
                                        Variant(<<"U">>, "unit", "unit")>>]
        \* (Vec<Vec<usize>>, usize)
        [] n = "Sib" -> [k |-> "tuple", exp |-> "a tuple of size 2",
                         of |-> <<"VecVecUsize", "usize">>]
        [] n = "VecVecUsize" -> [k |-> "seq", exp |-> "a sequence", of |-> "VecUsize"]
        [] n = "VecUsize" -> [k |-> "seq", exp |-> "a sequence", of |-> "usize"]
        \* struct SibMap { a: Vec<Vec<usize>>, b: usize }
        [] n = "SibMap" -> [k |-> "struct", exp |-> "struct SibMap", ident |-> "SibMap.field",
                            fields |-> <<Field(<<"a">>, "VecVecUsize"),
                                         Field(<<"b">>, "usize")>>]
        \* (u8, u8)   (test_long_tuple)
        [] n = "Tuple2" -> [k |-> "tuple", exp |-> "a tuple of size 2",
                            of |-> <<"usize", "usize">>]
        \* struct L(Vec<L>)
        [] n = "L" -> [k |-> "newtype", exp |-> "tuple struct L", of |-> "VecL"]
        [] n = "VecL" -> [k |-> "seq", exp |-> "a sequence", of |-> "L"]
        \* (u8,) and (u8, u8, u8)   (test_short_tuple)
        [] n = "Tuple1" -> [k |-> "tuple", exp |-> "a tuple of size 1", of |-> <<"usize">>]
        [] n = "Tuple3" -> [k |-> "tuple", exp |-> "a tuple of size 3",
                            of |-> <<"usize", "usize", "usize">>]
        \* a hand-written Visitor whose visit_seq and visit_map take at most n
        \* elements or entries, as IgnoredAny, and return
        [] n = "Take0" -> [k |-> "take", exp |-> "a prefix", n |-> 0]
        [] n = "Take1" -> [k |-> "take", exp |-> "a prefix", n |-> 1]
        [] n = "Take2" -> [k |-> "take", exp |-> "a prefix", n |-> 2]
        \* (Vec<usize>, E)
        [] n = "SeqE" -> [k |-> "tuple", exp |-> "a tuple of size 2",
                          of |-> <<"VecUsize", "E">>]
        \* enum E4 { U, N(usize), T(u8, u8), W { c: () } }
        [] n = "E4" -> [k |-> "enum", exp |-> "enum E4", ident |-> "E4.variant",
                        variants |-> <<Variant(<<"U">>, "unit", "unit"),
                                       Variant(<<"N">>, "newtype", "usize"),
                                       Variant(<<"T">>, "tuple", "Tuple2"),
                                       Variant(<<"W">>, "struct", "Wrapper")>>]
        \* (String, E)
        [] n = "StrE" -> [k |-> "tuple", exp |-> "a tuple of size 2",
                          of |-> <<"String", "E">>]
        \* struct A { b: Vec<B> }, enum B { C(C) }, struct C { d: bool }
        \* (test_incorrect_nested_type; the struct C is Cs here)
        [] n = "A" -> [k |-> "struct", exp |-> "struct A", ident |-> "A.field",
                       fields |-> <<Field(<<"b">>, "VecB")>>]
        [] n = "VecB" -> [k |-> "seq", exp |-> "a sequence", of |-> "B"]
        [] n = "B" -> [k |-> "enum", exp |-> "enum B", ident |-> "B.variant",
                       variants |-> <<Variant(<<"C">>, "newtype", "Cs")>>]
        [] n = "Cs" -> [k |-> "struct", exp |-> "struct C", ident |-> "Cs.field",
                        fields |-> <<Field(<<"d">>, "bool")>>]
        \* struct Basic { v: bool, w: bool }   (test_missing_field)
        [] n = "Basic" -> [k |-> "struct", exp |-> "struct Basic", ident |-> "Basic.field",
                           fields |-> <<Field(<<"v">>, "bool"), Field(<<"w">>, "bool")>>]
        \* Vec<E>
        [] n = "VecE" -> [k |-> "seq", exp |-> "a sequence", of |-> "E"]
        [] n = "VecE4" -> [k |-> "seq", exp |-> "a sequence", of |-> "E4"]
        \* (IgnoredAny, E)
        [] n = "IgnE" -> [k |-> "tuple", exp |-> "a tuple of size 2",
                          of |-> <<"Ignored", "E">>]]

\* the seed of a derived struct's field identifier / an enum's variant identifier
FieldIdent(shape) ==
    [k |-> "ident", exp |-> "field identifier", what |-> "field",
     names |-> [i \in 1..Len(shape.fields) |-> shape.fields[i].name]]
VariantIdent(shape) ==
    [k |-> "ident", exp |-> "variant identifier", what |-> "variant",
     names |-> [i \in 1..Len(shape.variants) |-> shape.variants[i].name]]
\* the BadKey visitor of EnumAccess::variant_seed, which rejects everything
BadKey == [k |-> "badkey", exp |-> "variant of enum"]

\* the visitors by name: the types, and the seeds of their identifiers
SeedNames ==
    {"S.field", "Wrapper.field", "SibMap.field", "E.variant", "Rec.variant", "E4.variant",
     "A.field", "B.variant", "Cs.field", "Basic.field", "BadKey"}
ShapesOf(types) ==
    [n \in TypeNames \cup SeedNames |->
      CASE n \in TypeNames -> types[n]
        [] n = "S.field" -> FieldIdent(types["S"])
        [] n = "Wrapper.field" -> FieldIdent(types["Wrapper"])
        [] n = "SibMap.field" -> FieldIdent(types["SibMap"])
        [] n = "E.variant" -> VariantIdent(types["E"])
        [] n = "Rec.variant" -> VariantIdent(types["Rec"])
        [] n = "E4.variant" -> VariantIdent(types["E4"])
        [] n = "A.field" -> FieldIdent(types["A"])
        [] n = "B.variant" -> VariantIdent(types["B"])
        [] n = "Cs.field" -> FieldIdent(types["Cs"])
        [] n = "Basic.field" -> FieldIdent(types["Basic"])
        [] n = "BadKey" -> BadKey]
Shapes == ShapesOf(Types)

Value(ty, v) == [ty |-> ty, v |-> v]
invalid_type_of(unexp, exp) == message("invalid type", unexp, exp)
invalid_length(n, exp, k) == message("invalid length", n, [text |-> exp, n |-> k])

\* the visitor's visit_<method>(v): the value it builds, or the default
\* "invalid type" error of a method the visitor does not implement
visit(shape, call) ==
    LET accepted ==
            CASE shape.k = "unit" -> {"unit"}
              [] shape.k = "bool" -> {"bool"}
              [] shape.k = "u64" -> {"u64"}
              [] shape.k = "i64" -> {"i64", "u64"}
              [] shape.k = "i128" -> {"i128", "i64", "u64"}
              [] shape.k = "u128" -> {"u128", "u64"}
              [] shape.k = "f64" -> {"f64", "i64", "u64"}
              [] shape.k = "str" -> {"str"}
              [] shape.k = "ident" -> {"str"}
              [] shape.k = "ignored" -> {"unit", "bool", "u64", "i64", "u128", "i128",
                                         "f64", "str"}
              [] OTHER -> {}
        index == IF shape.k = "ident" /\ \E i \in 1..Len(shape.names) : shape.names[i] = call.v
                 THEN CHOOSE i \in 1..Len(shape.names) : shape.names[i] = call.v
                 ELSE 0
    IN  IF call.visit \notin accepted THEN Err(invalid_type_of(call, shape.exp))
        ELSE IF shape.k = "ident"
        THEN IF index = 0 /\ shape.what = "variant"
             THEN Err(message("unknown variant", call, shape.exp))
             ELSE Ok(Value("ident", index))
        ELSE IF shape.k = "ignored" THEN Ok(Value("ignored", <<>>))
        ELSE Ok(Value(call.visit, call.v))

\* visit_scalar(visitor, scalar)
VisitCall(shape, c) == IF c.ok THEN visit(shape, c.val) ELSE c
visit_scalar(shape, scalar) == VisitCall(shape, scalar_visit(scalar))

\* invalid_type(event, exp): the error for an event of the wrong kind
Unexpected(c, exp) == IF c.ok THEN Err(invalid_type_of(c.val, exp)) ELSE c
invalid_type(event, exp) ==
    CASE event.type = "Alias" -> Halt("unreachable")
      [] event.type = "Scalar" -> Unexpected(scalar_visit(event), exp)
      [] event.type = "SequenceStart" -> Err(invalid_type_of(Visit("seq", <<>>), exp))
      [] event.type = "MappingStart" -> Err(invalid_type_of(Visit("map", <<>>), exp))
      [] event.type = "SequenceEnd" -> Halt("unexpected end of sequence")
      [] event.type = "MappingEnd" -> Halt("unexpected end of mapping")

---------------------------------------------------------------------------
(* The cursor: DeserializerFromEvents.  Cursors live in des, in the order  *)
(* they are created; each is created from the cursor created last and is   *)
(* dropped before it, so the parent of cursor d (the `parent` of its Path) *)
(* is cursor d - 1.  Cursors that share a position share a cell of cells.  *)

Document == Documents[doc]

\* one Path segment: Root, Seq{index}, Map{key}, Alias, Unknown
Path_Root == <<"Root">>
Path_Seq(index) == <<"Seq", index>>
Path_Map(key) == <<"Map", key>>
Path_Alias == <<"Alias">>
Path_Unknown == <<"Unknown">>

Cursor(cell, seg, depth) == [cell |-> cell, seg |-> seg, depth |-> depth]
pos_of(d) == cells[des[d].cell]
\* self.path, from the root down
PathOf(d) == [i \in 1..(d - 1) |-> des[i + 1].seg]
\* the mark of the event at a position
MarkAt(at) == Document.events[at + 1].mark

\* peek_event_mark that forgets the document's deferred error
peek_event_mark_eof(document, pos) ==
    IF pos < Len(document.events) THEN Ok(document.events[pos + 1])
    ELSE Err(end_of_stream)

peek_event_mark(document, pos) ==
    IF pos < Len(document.events) THEN Ok(document.events[pos + 1])
    ELSE Err(IF document.error.kind # "None" THEN shared(document.error)
             ELSE end_of_stream)

\* next_event_mark that advances before it knows there is an event
next_event_mark_advancing(document, pos) ==
    [res |-> peek_event_mark(document, pos), pos |-> pos + 1]

\* the result and the position afterwards
next_event_mark(document, pos) ==
    [res |-> peek_event_mark(document, pos),
     pos |-> IF peek_event_mark(document, pos).ok THEN pos + 1 ELSE pos]

\* jump: the index of the aliased event, None where the source panics
jump(document, id) ==
    IF id \in DOMAIN document.aliases THEN Some(document.aliases[id]) ELSE None

\* the stack of Nest markers after an event
NestAfter(nest, type) ==
    CASE type \in {"Alias", "Scalar"} -> nest
      [] type \in {"SequenceStart", "MappingStart"} -> Append(nest, type)
      [] OTHER -> IF nest = <<>> THEN <<>> ELSE Front(nest)

IgnoreLeft(res, pos, nest) == [left |-> TRUE, res |-> res, pos |-> pos, nest |-> nest]

\* an ignore_any that keeps no stack: it returns after one event
IgnoreEvent_flat(ev, pos, nest) == IgnoreLeft(Ok(<<>>), pos, nest)

\* the body of ignore_any's loop for the event read
IgnoreEvent(ev, pos, nest) ==
    IF ev.type = "SequenceEnd" /\ (nest = <<>> \/ Last(nest) # "SequenceStart")
    THEN IgnoreLeft(Halt("unexpected end of sequence"), pos, nest)
    ELSE IF ev.type = "MappingEnd" /\ (nest = <<>> \/ Last(nest) # "MappingStart")
    THEN IgnoreLeft(Halt("unexpected end of mapping"), pos, nest)
    ELSE IF NestAfter(nest, ev.type) = <<>> THEN IgnoreLeft(Ok(<<>>), pos, nest)
    ELSE [left |-> FALSE, res |-> Ok(<<>>), pos |-> pos, nest |-> NestAfter(nest, ev.type)]

\* one iteration of the loop of ignore_any, `nest` being its stack of Nest
\* markers: whether the loop is left and with what, the position, the stack
IgnoreNext(next, nest) ==
    IF ~next.res.ok THEN IgnoreLeft(next.res, next.pos, nest)
    ELSE IgnoreEvent(next.res.val, next.pos, nest)
ignore_step(document, pos, nest) == IgnoreNext(next_event_mark(document, pos), nest)

\* a budget that is one short: the last unit is never spent
checked_sub_short(depth) == IF depth <= 1 THEN None ELSE Some(depth - 1)
\* recursion_check that does not put the depth back
restored_depth_kept(previous_depth, current) == current

\* recursion_check: remaining_depth.checked_sub(1)
checked_sub(depth) == IF depth = 0 THEN None ELSE Some(depth - 1)
\* recursion_check: self.remaining_depth = previous_depth, after f has run
restored_depth(previous_depth, current) == previous_depth

---------------------------------------------------------------------------
(* The engine runs one deserialize call at a time.  ctl is what it does    *)
(* next, stack the frames of the calls that wait for a callee's result.    *)

Idle == [t |-> "idle"]
Call(fn, shape, arg) == [t |-> "call", fn |-> fn, shape |-> shape, arg |-> arg]
Loop(shape, arg, nest) == [t |-> "loop", shape |-> shape, arg |-> arg, nest |-> nest]
Return(res) ==
    IF res.halt THEN [t |-> "panic", msg |-> res.msg] ELSE [t |-> "ret", res |-> res]

Outer == <<desers, task, doc, target, usage>>
Top == Len(stack)

\* T::deserialize(deserializer): the Deserializer method a shape's impl calls
OpOf(k) ==
    CASE k = "u64" -> "deserialize_u64"
      [] k = "i64" -> "deserialize_i64"
      [] k = "bool" -> "deserialize_bool"
      [] k \in {"str", "ident"} -> "deserialize_str"
      [] k = "unit" -> "deserialize_unit"
      [] k = "option" -> "deserialize_option"
      [] k = "newtype" -> "deserialize_newtype_struct"
      [] k \in {"seq", "tuple"} -> "deserialize_seq"
      [] k \in {"struct", "spanned"} -> "deserialize_struct"
      [] k = "enum" -> "deserialize_enum"
      [] k = "ignored" -> "deserialize_ignored_any"
      [] k \in {"badkey", "take"} -> "deserialize_any"

Calling(fn) == ctl.t = "call" /\ ctl.fn = fn /\ Len(stack) < MaxStack
Running(op) == Calling("deserialize") /\ OpOf(Shapes[ctl.shape].k) = op
Returning(k) == ctl.t = "ret" /\ stack # <<>> /\ Last(stack).k = k

\* the cursor's position moved to pos
Moved(d, pos) == [cells EXCEPT ![des[d].cell] = pos]

\* let (next, mark) = self.next_event_mark()?  returns the error
NoEvent(d, next) ==
    /\ ctl' = Return(next.res)
    /\ cells' = Moved(d, next.pos)
    /\ UNCHANGED <<stack, des, accs>>
\* self.peek_event()?  returns the error
NoPeek(res) == ctl' = Return(res) /\ UNCHANGED <<stack, cells, des, accs>>

\* self.jump(&mut pos)?.deserialize_x(visitor): a cursor of its own on the
\* aliased event; `fix` tells whether the caller maps the error with fix_mark
JumpTo(d, at, after, fix, target_pos) ==
    IF ~target_pos.some
    THEN /\ ctl' = Return(Halt("unresolved alias"))
         /\ cells' = Moved(d, after)
         /\ UNCHANGED <<stack, des, accs>>
    ELSE /\ cells' = Append(Moved(d, after), target_pos.v)
         /\ des' = Append(des, Cursor(Len(cells) + 1, Path_Alias, des[d].depth))
         /\ stack' = Append(stack, [k |-> "jump", de |-> d, at |-> at, fix |-> fix])
         /\ ctl' = Call("deserialize", ctl.shape, Len(des) + 1)
         /\ UNCHANGED accs

\* the position that the alias read at `at` refers to
aliased(document, at) == jump(document, document.events[at + 1].id)
Jump(d, at, after, fix) == JumpTo(d, at, after, fix, aliased(Document, at))

\* the jumped-to operation has returned
jump_return ==
    /\ Returning("jump")
    /\ stack' = Front(stack)
    /\ des' = Front(des)
    /\ cells' = Front(cells)
    /\ ctl' = Return(IF Last(stack).fix
                     THEN map_err_fix_mark(ctl.res, MarkAt(Last(stack).at),
                                           PathOf(Last(stack).de))
                     ELSE ctl.res)
    /\ UNCHANGED <<Outer, accs, entered>>

\* an arm that returns its error as it is, without fix_mark
Done_unstamped(d, at, after, res) ==
    /\ cells' = Moved(d, after)
    /\ ctl' = Return(res)
    /\ UNCHANGED <<stack, des, accs>>

\* an arm that ends the operation on the event at `at` with a result, mapped
\* with fix_mark; `after` is the position the event was read to
Done(d, at, after, res) ==
    /\ cells' = Moved(d, after)
    /\ ctl' = Return(map_err_fix_mark(res, MarkAt(at), PathOf(d)))
    /\ UNCHANGED <<stack, des, accs>>

\* deserialize_bool / _i64 / _u64 on an event that is not an alias: a plain
\* scalar whose text parses under the requested type goes to the visitor,
\* whatever its tag; everything else is invalid_type(next, &visitor)
typed_scalar(shape, ev, parsed, method) ==
    IF ev.type = "Scalar" /\ ev.style = "Plain" /\ parsed.some
    THEN visit(shape, Visit(method, parsed.v))
    ELSE invalid_type(ev, shape.exp)

\* the shared body of deserialize_bool / _i64 / _u64 on the event at `at`
TypedScalar(d, at, after, ev, parsed, method) ==
    IF ev.type = "Alias" THEN Jump(d, at, after, TRUE)
    ELSE Done(d, at, after, typed_scalar(Shapes[ctl.shape], ev, parsed, method))

deserialize_bool ==
    /\ Running("deserialize_bool")
    /\ LET d == ctl.arg
           at == pos_of(d)
           next == next_event_mark(Document, at)
           ev == next.res.val
       IN  IF ~next.res.ok THEN NoEvent(d, next)
           ELSE TypedScalar(d, at, next.pos, ev, parse_bool(ev.value), "bool")
    /\ UNCHANGED <<Outer, entered>>

deserialize_i64 ==
    /\ Running("deserialize_i64")
    /\ LET d == ctl.arg
           at == pos_of(d)
           next == next_event_mark(Document, at)
           ev == next.res.val
       IN  IF ~next.res.ok THEN NoEvent(d, next)
           ELSE TypedScalar(d, at, next.pos, ev, parse_signed_int(ev.value, "i64"), "i64")
    /\ UNCHANGED <<Outer, entered>>

deserialize_u64 ==
    /\ Running("deserialize_u64")
    /\ LET d == ctl.arg
           at == pos_of(d)
           next == next_event_mark(Document, at)
           ev == next.res.val
       IN  IF ~next.res.ok THEN NoEvent(d, next)
           ELSE TypedScalar(d, at, next.pos, ev, parse_unsigned_int(ev.value, "u64"), "u64")
    /\ UNCHANGED <<Outer, entered>>

\* deserialize_str, also reached from deserialize_string / _identifier
deserialize_str ==
    /\ Running("deserialize_str")
    /\ LET d == ctl.arg
           at == pos_of(d)
           next == next_event_mark(Document, at)
           ev == next.res.val
       IN  IF ~next.res.ok THEN NoEvent(d, next)
           ELSE IF ev.type = "Alias" THEN Jump(d, at, next.pos, TRUE)
           ELSE Done(d, at, next.pos,
                     IF ev.type = "Scalar"
                     THEN visit(Shapes[ctl.shape], Visit("str", ev.value))
                     ELSE invalid_type(ev, Shapes[ctl.shape].exp))
    /\ UNCHANGED <<Outer, entered>>

\* deserialize_unit -> deserialize_scalar
deserialize_scalar ==
    /\ Running("deserialize_unit")
    /\ LET d == ctl.arg
           at == pos_of(d)
           next == next_event_mark(Document, at)
           ev == next.res.val
       IN  IF ~next.res.ok THEN NoEvent(d, next)
           ELSE IF ev.type = "Alias" THEN Jump(d, at, next.pos, TRUE)
           ELSE Done(d, at, next.pos,
                     IF ev.type = "Scalar" THEN visit_scalar(Shapes[ctl.shape], ev)
                     ELSE invalid_type(ev, Shapes[ctl.shape].exp))
    /\ UNCHANGED <<Outer, entered>>

\* deserialize_ignored_any: self.ignore_any()? starts with an empty stack
deserialize_ignored_any ==
    /\ Running("deserialize_ignored_any")
    /\ ctl' = Loop(ctl.shape, ctl.arg, <<>>)
    /\ UNCHANGED <<Outer, stack, cells, des, accs, entered>>

\* ignore_any that gives the Document up once it has skipped through it: the
\* engine is left holding an empty document
ignore_any_releasing ==
    /\ ctl.t = "loop"
    /\ LET step == ignore_step(Document, pos_of(ctl.arg), ctl.nest)
       IN  /\ cells' = Moved(ctl.arg, step.pos)
           /\ ctl' = IF ~step.left THEN Loop(ctl.shape, ctl.arg, step.nest)
                     ELSE Return(IF step.res.ok
                                 THEN visit(Shapes[ctl.shape], Visit("unit", <<>>))
                                 ELSE step.res)
           /\ doc' = IF step.left THEN "d0" ELSE doc
    /\ UNCHANGED <<desers, task, target, usage, stack, des, accs, entered>>

\* one iteration of ignore_any's loop; when the loop is left with Ok,
\* deserialize_ignored_any goes on to visitor.visit_unit()
ignore_any ==
    /\ ctl.t = "loop"
    /\ LET step == ignore_step(Document, pos_of(ctl.arg), ctl.nest)
       IN  /\ cells' = Moved(ctl.arg, step.pos)
           /\ ctl' = IF ~step.left THEN Loop(ctl.shape, ctl.arg, step.nest)
                     ELSE Return(IF step.res.ok
                                 THEN visit(Shapes[ctl.shape], Visit("unit", <<>>))
                                 ELSE step.res)
    /\ UNCHANGED <<Outer, stack, des, accs, entered>>

\* visitor.visit_newtype_struct(self): the inner type decodes from the same cursor
deserialize_newtype_struct ==
    /\ Running("deserialize_newtype_struct")
    /\ ctl' = Call("deserialize", Shapes[ctl.shape].of, ctl.arg)
    /\ UNCHANGED <<Outer, stack, cells, des, accs, entered>>

\* the native call stack is exhausted: the process aborts
stack_overflow ==
    /\ ctl.t = "call"
    /\ Len(stack) >= MaxStack
    /\ ctl' = [t |-> "overflow"]
    /\ UNCHANGED <<Outer, stack, cells, des, accs, entered>>


---------------------------------------------------------------------------
(* Containers: visit_sequence / visit_mapping under recursion_check, and   *)
(* the SeqAccess / MapAccess handed to the visitor.                        *)

Access(d, len, key) == [de |-> d, len |-> len, key |-> key]

\* visit_sequence / visit_mapping whose recursion_check goes on at depth 0
VisitContainer_unchecked(d, at, after, frame, method) ==
    /\ cells' = Moved(d, after)
    /\ des' = [des EXCEPT ![d].depth = IF checked_sub(des[d].depth).some
                                       THEN checked_sub(des[d].depth).v ELSE 0]
    /\ accs' = Append(accs, Access(d, 0, None))
    /\ stack' = Append(stack, [k |-> frame, previous_depth |-> des[d].depth,
                               at |-> at, acc |-> Len(accs) + 1])
    /\ ctl' = Call(method, ctl.shape, Len(accs) + 1)

\* visit_sequence / visit_mapping on the container opened at `at`:
\* recursion_check, then the closure that builds the access and calls
\* visitor.visit_seq / visit_map
VisitContainer(d, at, after, frame, method) ==
    IF ~checked_sub(des[d].depth).some
    THEN Done(d, at, after, Err(recursion_limit_exceeded(MarkAt(at))))
    ELSE /\ cells' = Moved(d, after)
         /\ des' = [des EXCEPT ![d].depth = checked_sub(des[d].depth).v]
         /\ accs' = Append(accs, Access(d, 0, None))
         /\ stack' = Append(stack, [k |-> frame, previous_depth |-> des[d].depth,
                                    at |-> at, acc |-> Len(accs) + 1])
         /\ ctl' = Call(method, ctl.shape, Len(accs) + 1)

visit_sequence(d, at, after) == VisitContainer(d, at, after, "visit_sequence", "visit_seq")
visit_mapping(d, at, after) == VisitContainer(d, at, after, "visit_mapping", "visit_map")

deserialize_any ==
    /\ Running("deserialize_any")
    /\ LET d == ctl.arg
           at == pos_of(d)
           next == next_event_mark(Document, at)
           ev == next.res.val
       IN  IF ~next.res.ok THEN NoEvent(d, next)
           ELSE CASE ev.type = "Alias" -> Jump(d, at, next.pos, TRUE)
                  [] ev.type = "Scalar" ->
                        Done(d, at, next.pos, visit_scalar(Shapes[ctl.shape], ev))
                  [] ev.type = "SequenceStart" -> visit_sequence(d, at, next.pos)
                  [] ev.type = "MappingStart" -> visit_mapping(d, at, next.pos)
                  [] ev.type = "SequenceEnd" ->
                        Done(d, at, next.pos, Halt("unexpected end of sequence"))
                  [] ev.type = "MappingEnd" ->
                        Done(d, at, next.pos, Halt("unexpected end of mapping"))
    /\ UNCHANGED <<Outer, entered>>

\* deserialize_seq, also reached from deserialize_tuple / _tuple_struct
deserialize_seq ==
    /\ Running("deserialize_seq")
    /\ LET d == ctl.arg
           at == pos_of(d)
           next == next_event_mark(Document, at)
           ev == next.res.val
       IN  IF ~next.res.ok THEN NoEvent(d, next)
           ELSE CASE ev.type = "Alias" -> Jump(d, at, next.pos, TRUE)
                  [] ev.type = "SequenceStart" -> visit_sequence(d, at, next.pos)
                  [] OTHER -> Done(d, at, next.pos, invalid_type(ev, Shapes[ctl.shape].exp))
    /\ UNCHANGED <<Outer, entered>>

\* the field names of a Spanned (spanned.rs)
START == "$__serde_private_start"
LENGTH == "$__serde_private_length"
PATH == "$__serde_private_path"
VALUE == "$__serde_private_value"

SpannedMapAccessState ==
    {"StartKey", "DeserializeStart", "ValueKey", "DeserializeValue", "LengthKey",
     "DeserializeLength", "PathKey", "DeserializePath", "Done"}

\* a span map access that offers the length before the value
SpannedMapAccess_next_key_seed_length_first(state) ==
    CASE state = "StartKey" -> [state |-> "DeserializeStart", res |-> Ok(Some(START))]
      [] state = "ValueKey" -> [state |-> "DeserializeLength", res |-> Ok(Some(LENGTH))]
      [] state = "LengthKey" -> [state |-> "DeserializeValue", res |-> Ok(Some(VALUE))]
      [] state = "PathKey" -> [state |-> "DeserializePath", res |-> Ok(Some(PATH))]
      [] state = "Done" -> [state |-> "Done", res |-> Ok(None)]
      [] OTHER -> [state |-> state, res |-> Halt("Invalid state")]

\* SpannedMapAccess::next_key_seed: the new state and the key handed to the
\* seed, None when done, unreachable!() in a state that expects next_value
SpannedMapAccess_next_key_seed(state) ==
    CASE state = "StartKey" -> [state |-> "DeserializeStart", res |-> Ok(Some(START))]
      [] state = "ValueKey" -> [state |-> "DeserializeValue", res |-> Ok(Some(VALUE))]
      [] state = "LengthKey" -> [state |-> "DeserializeLength", res |-> Ok(Some(LENGTH))]
      [] state = "PathKey" -> [state |-> "DeserializePath", res |-> Ok(Some(PATH))]
      [] state = "Done" -> [state |-> "Done", res |-> Ok(None)]
      [] OTHER -> [state |-> state, res |-> Halt("Invalid state")]

\* SpannedMapAccess::next_value_seed: the new state and which entry the seed
\* is given to decode, todo!() in a state that expects next_key
SpannedMapAccess_next_value_seed(state) ==
    CASE state = "DeserializeStart" -> [state |-> "ValueKey", res |-> Ok("start")]
      [] state = "DeserializeValue" -> [state |-> "LengthKey", res |-> Ok("value")]
      [] state = "DeserializeLength" -> [state |-> "PathKey", res |-> Ok("length")]
      [] state = "DeserializePath" -> [state |-> "Done", res |-> Ok("path")]
      [] OTHER -> [state |-> state, res |-> Halt("not yet implemented")]

\* the Spanned visitor's `if visitor.next_key()? != Some(KEY) { return Err(..) }`
ExpectKey(key, expected, msg) ==
    IF ~key.ok THEN key
    ELSE IF key.val.some /\ key.val.v = expected THEN Ok(<<>>)
    ELSE Err(message(msg, <<>>, ""))

\* one `next_key ... next_value` pair of the Spanned visitor from a state of
\* the map access: the state it leaves and Ok(entry) or what ended it
ExpectEntry(state, expected, msg) ==
    LET key == SpannedMapAccess_next_key_seed(state)
        found == ExpectKey(key.res, expected, msg)
    IN  IF ~found.ok THEN [state |-> key.state, res |-> found]
        ELSE SpannedMapAccess_next_value_seed(key.state)

\* Spanned's Visitor::visit_map up to the call that decodes the value: the
\* start entry, then the value entry
visit_map_start(state) ==
    LET start == ExpectEntry(state, START, "spanned start key not found")
    IN  IF ~start.res.ok THEN start
        ELSE ExpectEntry(start.state, VALUE, "spanned value key not found")

\* the same from the state in which visit_spanned creates the map access
visit_map_started == visit_map_start("StartKey")

\* the length entry and the path entry of the Spanned visitor, by the state
\* of the map access
visit_map_length ==
    [state \in SpannedMapAccessState |->
        ExpectEntry(state, LENGTH, "spanned length key not found")]
visit_map_path ==
    [state \in SpannedMapAccessState |->
        ExpectEntry(state, PATH, "spanned length key not found")]

\* deserialize_struct of a struct other than Spanned
\* visit_spanned: recursion_check, then visitor.visit_map over a
\* SpannedMapAccess that remembers the position `at`; the Spanned visitor
\* takes the start, then the value from a cursor on the same position cell
\* with the same path and depth, then the length and the path
visit_spanned(d, at) ==
    LET map == visit_map_started
    IN  IF ~checked_sub(des[d].depth).some
        THEN NoPeek(Err(recursion_limit_exceeded(MarkAt(at))))
        ELSE IF ~map.res.ok THEN NoPeek(map.res)
        ELSE /\ des' = [des EXCEPT ![d].depth = checked_sub(des[d].depth).v]
             /\ stack' = Append(stack, [k |-> "visit_spanned",
                                        previous_depth |-> des[d].depth,
                                        at |-> at, de |-> d, state |-> map.state])
             /\ ctl' = Call("deserialize", Shapes[ctl.shape].of, d)
             /\ UNCHANGED <<cells, accs>>

deserialize_struct ==
    /\ Running("deserialize_struct")
    /\ LET d == ctl.arg
           at == pos_of(d)
           next == next_event_mark(Document, at)
           ev == next.res.val
       IN  IF Shapes[ctl.shape].k = "spanned" /\ peek_event_mark(Document, at).ok
           THEN visit_spanned(d, at)
           ELSE IF ~next.res.ok THEN NoEvent(d, next)
           ELSE CASE ev.type = "Alias" -> Jump(d, at, next.pos, TRUE)
                  [] ev.type = "SequenceStart" -> visit_sequence(d, at, next.pos)
                  [] ev.type = "MappingStart" -> visit_mapping(d, at, next.pos)
                  [] OTHER -> Done(d, at, next.pos, invalid_type(ev, Shapes[ctl.shape].exp))
    /\ UNCHANGED <<Outer, entered>>

\* is_some of deserialize_option for a scalar
ScalarIsSome(scalar) ==
    CASE scalar.style # "Plain" -> TRUE
      [] scalar.tag # NoTag -> scalar.tag # TagNULL
      [] OTHER -> scalar.value # <<>> /\ ~parse_null(scalar.value)

\* a deserialize_option that leaves the null scalar of None unread
deserialize_option_peeking ==
    /\ Running("deserialize_option")
    /\ LET d == ctl.arg
           at == pos_of(d)
           peek == peek_event_mark(Document, at)
           ev == peek.val
       IN  IF ~peek.ok THEN NoPeek(peek)
           ELSE IF ev.type = "Alias" THEN Jump(d, at, at + 1, FALSE)
           ELSE IF ev.type = "SequenceEnd" THEN NoPeek(Halt("unexpected end of sequence"))
           ELSE IF ev.type = "MappingEnd" THEN NoPeek(Halt("unexpected end of mapping"))
           ELSE IF ev.type = "Scalar" /\ ev.style = "Plain" /\ ev.tag = TagNULL
                   /\ ~parse_null(ev.value)
           THEN NoPeek(Err(message("invalid value", Visit("str", ev.value), "null")))
           ELSE IF ev.type # "Scalar" \/ ScalarIsSome(ev)
           \* visitor.visit_some(self): Some of what T decodes from this cursor
           THEN /\ ctl' = Call("deserialize", Shapes[ctl.shape].of, d)
                /\ UNCHANGED <<stack, cells, des, accs>>
           ELSE /\ ctl' = Return(Ok(Value("none", <<>>)))
                /\ UNCHANGED <<stack, cells, des, accs>>
    /\ UNCHANGED <<Outer, entered>>

deserialize_option ==
    /\ Running("deserialize_option")
    /\ LET d == ctl.arg
           at == pos_of(d)
           peek == peek_event_mark(Document, at)
           ev == peek.val
       IN  IF ~peek.ok THEN NoPeek(peek)
           ELSE IF ev.type = "Alias" THEN Jump(d, at, at + 1, FALSE)
           ELSE IF ev.type = "SequenceEnd" THEN NoPeek(Halt("unexpected end of sequence"))
           ELSE IF ev.type = "MappingEnd" THEN NoPeek(Halt("unexpected end of mapping"))
           ELSE IF ev.type = "Scalar" /\ ev.style = "Plain" /\ ev.tag = TagNULL
                   /\ ~parse_null(ev.value)
           THEN NoPeek(Err(message("invalid value", Visit("str", ev.value), "null")))
           ELSE IF ev.type # "Scalar" \/ ScalarIsSome(ev)
           \* visitor.visit_some(self): Some of what T decodes from this cursor
           THEN /\ ctl' = Call("deserialize", Shapes[ctl.shape].of, d)
                /\ UNCHANGED <<stack, cells, des, accs>>
           ELSE /\ cells' = Moved(d, at + 1)
                /\ ctl' = Return(Ok(Value("none", <<>>)))
                /\ UNCHANGED <<stack, des, accs>>
    /\ UNCHANGED <<Outer, entered>>

\* end_sequence's ExpectedSeq(len) and end_mapping's ExpectedMap(len), as
\* their fmt writes them
ExpectedSeq(len) ==
    IF len = 1 THEN <<"sequence of 1 element">> ELSE <<"sequence of ", len, " elements">>
ExpectedMap(len) ==
    IF len = 1 THEN <<"map containing 1 entry">> ELSE <<"map containing ", len, " entries">>

\* a length check that reports what the visitor took, not the true total
LengthCheck_taken(total, f, expected) ==
    IF total = f.len THEN Ok(f.value) ELSE Err(invalid_length(f.len, expected, f.len))

\* the length check of end_sequence / end_mapping
LengthCheck(total, f, expected) ==
    IF total = f.len THEN Ok(f.value) ELSE Err(invalid_length(total, expected, f.len))

\* the event after the drained container, and the length check
EndContainer(f, endtype, expected) ==
    LET d == accs[f.acc].de
        next == next_event_mark(Document, pos_of(d))
        res == IF ~next.res.ok THEN next.res
               ELSE IF next.res.val.type # endtype
               THEN Halt(IF endtype = "SequenceEnd" THEN "expected a SequenceEnd event"
                         ELSE "expected a MappingEnd event")
               ELSE LengthCheck(accs[f.acc].len, f, expected)
    IN  /\ cells' = Moved(d, next.pos)
        /\ stack' = Front(stack)
        /\ accs' = Front(accs)
        /\ ctl' = Return(IF f.fix THEN map_err_fix_mark(res, MarkAt(f.at), PathOf(d))
                         ELSE res)

\* a failure inside a container: the operation that opened it returns it
FailContainer(f, fix) ==
    /\ stack' = Front(stack)
    /\ accs' = Front(accs)
    /\ ctl' = Return(IF fix
                     THEN map_err_fix_mark(ctl.res, MarkAt(f.at), PathOf(accs[f.acc].de))
                     ELSE ctl.res)

\* the frame of end_sequence / end_mapping draining what the visitor left
Draining(k, f, acc, len, fix) ==
    [k |-> k, at |-> f.at, acc |-> acc, fix |-> fix, entry |-> "key",
     len |-> len, value |-> ctl.res.val]

\* recursion_check after its closure: the depth is put back; then end_sequence
\* / end_mapping start to drain what the visitor left unread
recursion_check_return ==
    /\ ctl.t = "ret" /\ stack # <<>>
    /\ Last(stack).k \in {"visit_sequence", "visit_mapping"}
    /\ LET f == Last(stack)
           d == accs[f.acc].de
           seq == f.k = "visit_sequence"
       IN  /\ des' = [des EXCEPT ![d].depth = restored_depth(f.previous_depth, des[d].depth)]
           /\ IF ~ctl.res.ok THEN FailContainer(f, TRUE)
              ELSE /\ stack' = [stack EXCEPT ![Top] =
                                   Draining(IF seq THEN "end_sequence" ELSE "end_mapping",
                                            f, f.acc, accs[f.acc].len, TRUE)]
                   /\ ctl' = Call(IF seq THEN "next_element" ELSE "next_key",
                                  "Ignored", f.acc)
                   /\ UNCHANGED accs
    /\ UNCHANGED <<Outer, cells, entered>>

end_sequence ==
    /\ Returning("end_sequence")
    /\ LET f == Last(stack)
       IN  IF ~ctl.res.ok THEN FailContainer(f, TRUE) /\ UNCHANGED cells
           ELSE IF ctl.res.val.some
           THEN /\ ctl' = Call("next_element", "Ignored", f.acc)
                /\ UNCHANGED <<stack, cells, accs>>
           ELSE EndContainer(f, "SequenceEnd", ExpectedSeq(f.len))
    /\ UNCHANGED <<Outer, des, entered>>

\* end_mapping, after visit_mapping's closure and after deserialize_enum's
\* visit_enum; only the former maps the error with fix_mark
end_mapping ==
    /\ Returning("end_mapping")
    /\ LET f == Last(stack)
       IN  IF ~ctl.res.ok THEN FailContainer(f, f.fix) /\ UNCHANGED cells
           ELSE IF f.entry = "value"
           THEN /\ stack' = [stack EXCEPT ![Top].entry = "key"]
                /\ ctl' = Call("next_key", "Ignored", f.acc)
                /\ UNCHANGED <<cells, accs>>
           ELSE IF ctl.res.val.some
           THEN /\ stack' = [stack EXCEPT ![Top].entry = "value"]
                /\ ctl' = Call("next_value", "Ignored", f.acc)
                /\ UNCHANGED <<cells, accs>>
           ELSE EndContainer(f, "MappingEnd", ExpectedMap(f.len))
    /\ UNCHANGED <<Outer, des, entered>>

\* the frames of an element, key or value keep the position `at` at which
\* its node starts
next_element_seed ==
    /\ Calling("next_element")
    /\ LET a == ctl.arg
           d == accs[a].de
           peek == peek_event_mark(Document, pos_of(d))
       IN  IF ~peek.ok THEN ctl' = Return(peek) /\ UNCHANGED <<stack, des, accs>>
           ELSE IF peek.val.type = "SequenceEnd"
           THEN ctl' = Return(Ok(None)) /\ UNCHANGED <<stack, des, accs>>
           ELSE /\ des' = Append(des, Cursor(des[d].cell, Path_Seq(accs[a].len), des[d].depth))
                /\ accs' = [accs EXCEPT ![a].len = @ + 1]
                /\ stack' = Append(stack, [k |-> "element", at |-> pos_of(d)])
                /\ ctl' = Call("deserialize", ctl.shape, Len(des) + 1)
    /\ UNCHANGED <<Outer, cells, entered>>

\* a next_key_seed that reads the MappingEnd it finds
next_key_seed_consuming ==
    /\ Calling("next_key")
    /\ LET a == ctl.arg
           d == accs[a].de
           next == next_event_mark(Document, pos_of(d))
       IN  IF ~next.res.ok
           THEN ctl' = Return(next.res) /\ UNCHANGED <<stack, accs, cells>>
           ELSE IF next.res.val.type = "MappingEnd"
           THEN /\ ctl' = Return(Ok(None))
                /\ cells' = Moved(d, next.pos)
                /\ UNCHANGED <<stack, accs>>
           ELSE /\ accs' = [accs EXCEPT ![a] =
                               Access(d, @.len + 1,
                                      IF next.res.val.type = "Scalar"
                                      THEN Some(next.res.val.value) ELSE None)]
                /\ stack' = Append(stack, [k |-> "key", at |-> pos_of(d)])
                /\ ctl' = Call("deserialize", ctl.shape, d)
                /\ UNCHANGED cells
    /\ UNCHANGED <<Outer, des, entered>>

next_key_seed ==
    /\ Calling("next_key")
    /\ LET a == ctl.arg
           d == accs[a].de
           peek == peek_event_mark(Document, pos_of(d))
       IN  IF ~peek.ok THEN ctl' = Return(peek) /\ UNCHANGED <<stack, accs>>
           ELSE IF peek.val.type = "MappingEnd"
           THEN ctl' = Return(Ok(None)) /\ UNCHANGED <<stack, accs>>
           ELSE /\ accs' = [accs EXCEPT ![a] =
                               Access(d, @.len + 1,
                                      IF peek.val.type = "Scalar" THEN Some(peek.val.value)
                                      ELSE None)]
                /\ stack' = Append(stack, [k |-> "key", at |-> pos_of(d)])
                /\ ctl' = Call("deserialize", ctl.shape, d)
    /\ UNCHANGED <<Outer, cells, des, entered>>

\* a value cursor that never takes the key's text
ValuePath_unnamed(key) == Path_Unknown

\* the path of MapAccess::next_value_seed's value_de
ValuePath(key) == IF key.some THEN Path_Map(key.v) ELSE Path_Unknown

next_value_seed ==
    /\ Calling("next_value")
    /\ LET a == ctl.arg
           d == accs[a].de
       IN  /\ des' = Append(des, Cursor(des[d].cell, ValuePath(accs[a].key), des[d].depth))
           /\ stack' = Append(stack, [k |-> "value", at |-> pos_of(d)])
           /\ ctl' = Call("deserialize", ctl.shape, Len(des) + 1)
    /\ UNCHANGED <<Outer, cells, accs, entered>>

\* seed.deserialize(..) of an element or key has returned: .map(Some); the
\* element's cursor is dropped
element_return ==
    /\ ctl.t = "ret" /\ stack # <<>> /\ Last(stack).k \in {"element", "key"}
    /\ stack' = Front(stack)
    /\ des' = IF Last(stack).k = "element" THEN Front(des) ELSE des
    /\ ctl' = Return(IF ctl.res.ok THEN Ok(Some(ctl.res.val)) ELSE ctl.res)
    /\ UNCHANGED <<Outer, cells, accs, entered>>

value_return ==
    /\ Returning("value")
    /\ stack' = Front(stack)
    /\ des' = Front(des)
    /\ ctl' = Return(ctl.res)
    /\ UNCHANGED <<Outer, cells, accs, entered>>

---------------------------------------------------------------------------
(* The visitors of the shapes (serde's impls and serde_derive's output).   *)

Arity(shape) ==
    CASE shape.k = "tuple" -> Len(shape.of)
      [] shape.k = "take" -> shape.n
      [] OTHER -> Len(shape.fields)
ElemShape(shape, i) ==
    CASE shape.k = "seq" -> shape.of
      [] shape.k = "tuple" -> shape.of[i]
      [] shape.k = "struct" -> shape.fields[i].ty
      [] shape.k = "take" -> "Ignored"

\* Visitor::visit_seq, called by visit_sequence's closure
visit_seq ==
    /\ Calling("visit_seq")
    /\ entered' = Append(entered, Last(stack).at)
    /\ IF Shapes[ctl.shape].k = "take" /\ Shapes[ctl.shape].n = 0
       THEN ctl' = Return(Ok(Value("take", <<>>))) /\ UNCHANGED stack
       ELSE IF Shapes[ctl.shape].k \in {"seq", "tuple", "struct", "take"}
       THEN /\ stack' = Append(stack, [k |-> "vis_seq", shape |-> ctl.shape,
                                       acc |-> ctl.arg, vals |-> <<>>])
            /\ ctl' = Call("next_element", ElemShape(Shapes[ctl.shape], 1), ctl.arg)
       ELSE /\ ctl' = Return(Err(invalid_type_of(Visit("seq", <<>>), Shapes[ctl.shape].exp)))
            /\ UNCHANGED stack
    /\ UNCHANGED <<Outer, cells, des, accs>>

\* the visitor has the next element: Vec takes elements until None, a tuple
\* or struct takes exactly as many as it has fields
visit_seq_element ==
    /\ Returning("vis_seq")
    /\ LET f == Last(stack)
           shape == Shapes[f.shape]
           vals == Append(f.vals, ctl.res.val.v)
       IN  IF ~ctl.res.ok THEN stack' = Front(stack) /\ ctl' = Return(ctl.res)
           ELSE IF ~ctl.res.val.some
           THEN /\ stack' = Front(stack)
                /\ ctl' = Return(IF shape.k \in {"seq", "take"} THEN Ok(Value(shape.k, f.vals))
                                 ELSE Err(invalid_length(Len(f.vals), shape.exp, 0)))
           ELSE IF shape.k # "seq" /\ Len(vals) = Arity(shape)
           THEN stack' = Front(stack) /\ ctl' = Return(Ok(Value(shape.k, vals)))
           ELSE /\ stack' = [stack EXCEPT ![Top].vals = vals]
                /\ ctl' = Call("next_element", ElemShape(shape, Len(vals) + 1), f.acc)
    /\ UNCHANGED <<Outer, cells, des, accs, entered>>

\* Visitor::visit_map, called by visit_mapping's closure
visit_map ==
    /\ Calling("visit_map")
    /\ entered' = Append(entered, Last(stack).at)
    /\ IF Shapes[ctl.shape].k = "take"
       THEN IF Shapes[ctl.shape].n = 0
            THEN ctl' = Return(Ok(Value("take", <<>>))) /\ UNCHANGED stack
            ELSE /\ stack' = Append(stack, [k |-> "vis_take", shape |-> ctl.shape,
                                            acc |-> ctl.arg, entry |-> "key",
                                            vals |-> <<>>])
                 /\ ctl' = Call("next_key", "Ignored", ctl.arg)
       ELSE IF Shapes[ctl.shape].k = "struct"
       THEN /\ stack' = Append(stack, [k |-> "vis_map", shape |-> ctl.shape,
                                       acc |-> ctl.arg, field |-> -1,
                                       got |-> [i \in 1..Arity(Shapes[ctl.shape]) |-> None]])
            /\ ctl' = Call("next_key", Shapes[ctl.shape].ident, ctl.arg)
       ELSE /\ ctl' = Return(Err(invalid_type_of(Visit("map", <<>>), Shapes[ctl.shape].exp)))
            /\ UNCHANGED stack
    /\ UNCHANGED <<Outer, cells, des, accs>>

\* serde's missing_field: an Option field is None, any other is an error
missing_field(field) ==
    IF Shapes[field.ty].k = "option" THEN Ok(Value("none", <<>>))
    ELSE Err(message("missing field", field.name, ""))

FieldValue(shape, got, i) ==
    IF got[i].some THEN Ok(got[i].v) ELSE missing_field(shape.fields[i])

\* the struct the derived visit_map builds once the keys are exhausted
BuildStruct(shape, got) ==
    IF \E i \in 1..Arity(shape) : ~FieldValue(shape, got, i).ok
    THEN FieldValue(shape, got, Min({i \in 1..Arity(shape) : ~FieldValue(shape, got, i).ok}))
    ELSE Ok(Value("struct", [i \in 1..Arity(shape) |-> FieldValue(shape, got, i).val]))

\* the derived visit_map loop: a key (field = -1 while it waits for one), then
\* its value, ignored for an unknown key (field 0)
visit_map_entry ==
    /\ Returning("vis_map")
    /\ LET f == Last(stack)
           shape == Shapes[f.shape]
           i == ctl.res.val.v.v
       IN  IF ~ctl.res.ok THEN stack' = Front(stack) /\ ctl' = Return(ctl.res)
           ELSE IF f.field >= 0
           THEN /\ stack' = [stack EXCEPT ![Top] =
                                [@ EXCEPT !.field = -1,
                                          !.got = IF f.field = 0 THEN @
                                                  ELSE [@ EXCEPT ![f.field] = Some(ctl.res.val)]]]
                /\ ctl' = Call("next_key", shape.ident, f.acc)
           ELSE IF ~ctl.res.val.some
           THEN stack' = Front(stack) /\ ctl' = Return(BuildStruct(shape, f.got))
           ELSE IF i # 0 /\ f.got[i].some
           THEN /\ stack' = Front(stack)
                /\ ctl' = Return(Err(message("duplicate field", shape.fields[i].name, "")))
           ELSE /\ stack' = [stack EXCEPT ![Top].field = i]
                /\ ctl' = Call("next_value",
                               IF i = 0 THEN "Ignored" ELSE shape.fields[i].ty, f.acc)
    /\ UNCHANGED <<Outer, cells, des, accs, entered>>

\* the visit_map of the Visitor that takes a prefix: a key, its value, and so
\* on until it has its n entries or the keys are exhausted
visit_take_entry ==
    /\ Returning("vis_take")
    /\ LET f == Last(stack)
           vals == Append(f.vals, ctl.res.val)
       IN  IF ~ctl.res.ok THEN stack' = Front(stack) /\ ctl' = Return(ctl.res)
           ELSE IF f.entry = "key"
           THEN IF ~ctl.res.val.some
                THEN stack' = Front(stack) /\ ctl' = Return(Ok(Value("take", f.vals)))
                ELSE /\ stack' = [stack EXCEPT ![Top].entry = "value"]
                     /\ ctl' = Call("next_value", "Ignored", f.acc)
           ELSE IF Len(vals) = Arity(Shapes[f.shape])
           THEN stack' = Front(stack) /\ ctl' = Return(Ok(Value("take", vals)))
           ELSE /\ stack' = [stack EXCEPT ![Top].entry = "key", ![Top].vals = vals]
                /\ ctl' = Call("next_key", "Ignored", f.acc)
    /\ UNCHANGED <<Outer, cells, des, accs, entered>>

---------------------------------------------------------------------------
(* Enums: deserialize_enum, EnumAccess / UnitVariantAccess and the derived *)
(* Visitor::visit_enum.                                                    *)

EnumAccess(d, tag) == [access |-> "EnumAccess", de |-> d, tag |-> tag]
\* an EnumAccess where deserialize_enum makes a UnitVariantAccess
UnitVariantAccess_keyed(d) == EnumAccess(d, None)
UnitVariantAccess(d) == [access |-> "UnitVariantAccess", de |-> d, tag |-> None]

\* what UnitVariantAccess's newtype_variant_seed / tuple_variant /
\* struct_variant say they expected
ExpectedVariant(kind) ==
    CASE kind = "newtype" -> "newtype variant"
      [] kind = "tuple" -> "tuple variant"
      [] kind = "struct" -> "struct variant"

\* variants.iter().find(|v| v.as_bytes() == tag) for a tag "!" ++ tag
TaggedVariant(shape, tag) ==
    IF tag # NoTag /\ tag[1] = "!" /\ \E i \in 1..Len(shape.variants) :
                                         shape.variants[i].name = tag[2]
    THEN Some(tag[2]) ELSE None

deserialize_enum ==
    /\ Running("deserialize_enum")
    /\ LET d == ctl.arg
           at == pos_of(d)
           peek == peek_event_mark(Document, at)
           ev == peek.val
       IN  IF ~peek.ok THEN NoPeek(peek)
           ELSE CASE ev.type = "Alias" -> Jump(d, at, at + 1, FALSE)
                  [] ev.type = "Scalar" ->
                        /\ ctl' = Call("visit_enum", ctl.shape,
                                       IF TaggedVariant(Shapes[ctl.shape], ev.tag).some
                                       THEN EnumAccess(d, TaggedVariant(Shapes[ctl.shape], ev.tag))
                                       ELSE UnitVariantAccess(d))
                        /\ UNCHANGED <<stack, cells, des, accs>>
                  [] ev.type = "MappingStart" ->
                        /\ cells' = Moved(d, at + 1)
                        /\ stack' = Append(stack, [k |-> "deserialize_enum", de |-> d,
                                                   at |-> at])
                        /\ ctl' = Call("visit_enum", ctl.shape, EnumAccess(d, None))
                        /\ UNCHANGED <<des, accs>>
                  [] ev.type = "SequenceStart" ->
                        Done(d, at, at, Err(invalid_type_of(Visit("seq", <<>>),
                                                            "string or singleton map")))
                  [] ev.type = "SequenceEnd" -> NoPeek(Halt("unexpected end of sequence"))
                  [] ev.type = "MappingEnd" -> NoPeek(Halt("unexpected end of mapping"))
    /\ UNCHANGED <<Outer, entered>>

\* deserialize_enum that returns the variant without self.end_mapping(1)
deserialize_enum_return_unchecked ==
    /\ Returning("deserialize_enum")
    /\ stack' = Front(stack)
    /\ ctl' = Return(ctl.res)
    /\ UNCHANGED <<Outer, cells, des, accs, entered>>

\* deserialize_enum after visit_enum on a mapping: `?`, then self.end_mapping(1)
deserialize_enum_return ==
    /\ Returning("deserialize_enum")
    /\ LET f == Last(stack)
       IN  IF ~ctl.res.ok
           THEN stack' = Front(stack) /\ ctl' = Return(ctl.res) /\ UNCHANGED accs
           ELSE /\ accs' = Append(accs, Access(f.de, 1, None))
                /\ stack' = [stack EXCEPT ![Top] =
                                Draining("end_mapping", f, Len(accs) + 1, 1, FALSE)]
                /\ ctl' = Call("next_key", "Ignored", Len(accs) + 1)
    /\ UNCHANGED <<Outer, cells, des, entered>>

\* the derived Visitor::visit_enum: data.variant()? first
visit_enum ==
    /\ Calling("visit_enum")
    /\ stack' = Append(stack, [k |-> "vis_enum", shape |-> ctl.shape, access |-> ctl.arg])
    /\ ctl' = Call("variant_seed", Shapes[ctl.shape].ident, ctl.arg)
    /\ UNCHANGED <<Outer, cells, des, accs, entered>>

\* a variant_seed without arms of its own for the End events: whatever is not
\* a scalar goes to deserialize_any with the BadKey visitor
KeyVariant_any(d, next, ev) ==
    IF ev.type = "Scalar"
    THEN /\ cells' = Moved(d, next.pos)
         /\ ctl' = Return(visit(Shapes[ctl.shape], Visit("str", ev.value)))
         /\ UNCHANGED stack
    ELSE /\ cells' = Moved(d, next.pos - 1)
         /\ stack' = Append(stack, [k |-> "unwrap_err"])
         /\ ctl' = Call("deserialize", "BadKey", d)

\* EnumAccess::variant_seed without a tag: the key event names the variant
KeyVariant(d, next, ev) ==
    CASE ev.type = "Scalar" ->
            /\ cells' = Moved(d, next.pos)
            /\ ctl' = Return(visit(Shapes[ctl.shape], Visit("str", ev.value)))
            /\ UNCHANGED stack
      [] ev.type = "MappingEnd" ->
            /\ cells' = Moved(d, next.pos)
            /\ ctl' = Return(Err(invalid_type_of(Visit("map", <<>>), BadKey.exp)))
            /\ UNCHANGED stack
      [] ev.type = "SequenceEnd" ->
            /\ cells' = Moved(d, next.pos)
            /\ ctl' = Return(Err(invalid_type_of(Visit("seq", <<>>), BadKey.exp)))
            /\ UNCHANGED stack
      \* *self.de.pos -= 1; deserialize_any(&mut *self.de, bad).unwrap_err()
      [] OTHER ->
            /\ cells' = Moved(d, next.pos - 1)
            /\ stack' = Append(stack, [k |-> "unwrap_err"])
            /\ ctl' = Call("deserialize", "BadKey", d)

\* EnumAccess::variant_seed and UnitVariantAccess::variant_seed, up to the
\* seed's result; the variant's cursor is made when the visitor goes on
variant_seed ==
    /\ Calling("variant_seed")
    /\ LET a == ctl.arg
           d == a.de
           next == next_event_mark(Document, pos_of(d))
       IN  IF a.access = "UnitVariantAccess"
           THEN /\ ctl' = Call("deserialize", ctl.shape, d)
                /\ UNCHANGED <<stack, cells>>
           ELSE IF a.tag.some
           THEN /\ ctl' = Return(visit(Shapes[ctl.shape], Visit("str", a.tag.v)))
                /\ UNCHANGED <<stack, cells>>
           ELSE IF ~next.res.ok
           THEN /\ ctl' = Return(next.res)
                /\ cells' = Moved(d, next.pos)
                /\ UNCHANGED stack
           ELSE KeyVariant(d, next, next.res.val)
    /\ UNCHANGED <<Outer, des, accs, entered>>

\* Result::unwrap_err of what deserialize_any gave the BadKey visitor
unwrap_err_return ==
    /\ Returning("unwrap_err")
    /\ stack' = Front(stack)
    /\ ctl' = Return(IF ctl.res.ok THEN Halt("called Result::unwrap_err() on an Ok value")
                     ELSE ctl.res)
    /\ UNCHANGED <<Outer, cells, des, accs, entered>>

\* the name of the variant the identifier stands for
VariantName(a, d, ident) ==
    IF a.access = "UnitVariantAccess" THEN <<>>
    ELSE IF a.tag.some THEN a.tag.v
    ELSE Document.events[pos_of(d)].value

\* the derived visit_enum once data.variant() has returned: the variant's
\* content is decoded through the VariantAccess
visit_enum_variant ==
    /\ Returning("vis_enum")
    /\ LET f == Last(stack)
           a == f.access
           variant == Shapes[f.shape].variants[ctl.res.val.v]
       IN  IF ~ctl.res.ok
           THEN stack' = Front(stack) /\ ctl' = Return(ctl.res) /\ UNCHANGED des
           ELSE IF a.access = "UnitVariantAccess"
           THEN /\ stack' = Front(stack)
                /\ ctl' = Return(IF variant.kind = "unit"
                                 THEN Ok(Value("enum", <<variant.name>>))
                                 ELSE Err(invalid_type_of(Visit("unit variant", <<>>),
                                                          ExpectedVariant(variant.kind))))
                /\ UNCHANGED des
           \* unit_variant is <()>::deserialize(&mut self), newtype_variant_seed
           \* is seed.deserialize(&mut self), tuple_variant and struct_variant
           \* are deserialize_seq and deserialize_struct with the variant's
           \* visitor, self being the variant's cursor
           ELSE /\ des' = Append(des, Cursor(des[a.de].cell,
                                             Path_Map(VariantName(a, a.de, ctl.res.val.v)),
                                             des[a.de].depth))
                /\ stack' = [stack EXCEPT ![Top] = [k |-> "variant", name |-> variant.name]]
                /\ ctl' = Call("deserialize",
                               IF variant.kind = "unit" THEN "unit" ELSE variant.ty,
                               Len(des) + 1)
    /\ UNCHANGED <<Outer, cells, accs, entered>>

\* the variant's content has been decoded: its cursor is dropped
variant_return ==
    /\ Returning("variant")
    /\ stack' = Front(stack)
    /\ des' = Front(des)
    /\ ctl' = Return(IF ctl.res.ok THEN Ok(Value("enum", <<Last(stack).name, ctl.res.val>>))
                     ELSE ctl.res)
    /\ UNCHANGED <<Outer, cells, accs, entered>>

---------------------------------------------------------------------------
(* The Deserializer: single-value entry (de) and per-document iteration    *)
(* (Iterator::next).  desers[1] is the Deserializer the user constructs,   *)
(* the others are the ones its iteration hands out.                        *)

NoRes == [ok |-> FALSE, halt |-> FALSE, err |-> NoErr]

\* progress: Str | Read | Iterable | Document | Fail.  docs is the input's
\* stream of documents, io whether reading the input fails, count how many
\* documents the Loader has handed out, called whether de has consumed the
\* Deserializer, res what de returned, out what each next() returned (the
\* index in desers of the Deserializer yielded, 0 for None)
Deserializer(progress, docs, io, d, err) ==
    [progress |-> progress, docs |-> docs, io |-> io, count |-> 0, doc |-> d,
     err |-> err, called |-> FALSE, res |-> NoRes, out |-> <<>>, text |-> None,
     loc |-> None]

\* Loader::new(progress)
Loader_new(progress, io, err) ==
    CASE progress = "Fail" -> Err(shared(err))
      [] progress = "Read" /\ io -> Err(io_error)
      [] OTHER -> Ok(<<>>)

Input(progress, docs, io, shape, use) ==
    [progress |-> progress, docs |-> docs, io |-> io, target |-> shape, usage |-> use]
\* T::deserialize(Deserializer::from_str(..))
Single(docs, shape) == Input("Str", docs, FALSE, shape, "single")
\* for document in Deserializer::from_str(..) { T::deserialize(document) },
\* in any order and mixed with de calls
Iterate(docs, shape) == Input("Str", docs, FALSE, shape, "iterate")

Inputs ==
    {Iterate(<<>>, "usize"), Iterate(<<"d1">>, "usize"), Single(<<"dstr">>, "usize"),
     Iterate(<<"d1", "d0">>, "usize"), Iterate(<<"dstr", "d1">>, "usize"),
     Iterate(<<"d0", "d1", "dstr">>, "usize"), Iterate(<<"d1", "dsyntax">>, "usize"),
     Iterate(<<"d1", "dstr", "d1">>, "usize"),
     Input("Read", <<"d1">>, TRUE, "usize", "iterate"),
     Input("Read", <<"d0", "d1">>, FALSE, "usize", "iterate"),
     Single(<<"d1">>, "i64"), Single(<<"dtrue">>, "bool"), Single(<<"dnull">>, "unit"),
     Single(<<"dnull">>, "OptS"), Single(<<"dstr">>, "String"),
     Iterate(<<"dunknown">>, "String"), Single(<<"dignored">>, "Wrapper"),
     Single(<<"dfwd">>, "VecUsize"), Single(<<"dalias">>, "VecUsize"),
     Single(<<"dseqsyntax">>, "Ignored"), Single(<<"dseqsyntax">>, "VecUsize"),
     Single(<<"dvmap">>, "E"), Single(<<"dtuple3">>, "Tuple2"),
     Single(<<"dsib">>, "Sib"), Single(<<"dsibmap">>, "SibMap"),
     Single(<<"dseqN">>, "S"), Single(<<"dmapN">>, "S"), Single(<<"denumN">>, "Rec"),
     Single(<<"dseqN">>, "L"), Single(<<"dseqN">>, "Ignored"), Single(<<"dseqN">>, "Rec"),
     Single(<<"dselfseq">>, "S"), Single(<<"dselfseq">>, "L"), Single(<<"dselfmap">>, "S"),
     Single(<<"dselfenum">>, "Rec"), Single(<<"dselfkey">>, "S"),
     Single(<<"dselfkey">>, "Rec"), Single(<<"dstr">>, "Rec"),
     Single(<<"dtag">>, "E"), Single(<<"dtag">>, "Rec"), Single(<<"dtag">>, "usize"),
     Single(<<"dtag">>, "unit"),
     Single(<<"dtuple2">>, "Tuple3"), Single(<<"dtuple2">>, "Tuple2"),
     Single(<<"dtuple3">>, "Tuple1"), Single(<<"dtuple3">>, "Take0"),
     Single(<<"dsib">>, "Take1"), Single(<<"dsibmap">>, "Take0"),
     Single(<<"dsibmap">>, "Take1"), Single(<<"dsibmap">>, "Take2"),
     Single(<<"dvmap">>, "Take2"), Single(<<"dalias">>, "Take1"),
     Single(<<"dvempty">>, "E"), Single(<<"dvone">>, "E"), Single(<<"dvmap3">>, "E"),
     Single(<<"daliasseq">>, "SeqE"), Single(<<"dtuple3">>, "E"),
     Single(<<"dtagunit">>, "Rec"),
     Single(<<"dvU">>, "E4"), Single(<<"dvN">>, "E4"), Single(<<"dvT">>, "E4"),
     Single(<<"dvW">>, "E4"), Single(<<"dstr">>, "E4"),
     Single(<<"daliaskey">>, "StrE"), Single(<<"dalias">>, "Tuple2"),
     Single(<<"dopenN">>, "L"), Single(<<"dopenN">>, "S"), Single(<<"dopenN">>, "Ignored"),
     Single(<<"dnested">>, "A"), Single(<<"dbasic">>, "Basic"),
     Single(<<"dvone">>, "Wrapper"), Single(<<"dstr">>, "i64"),
     Single(<<"dnull">>, "usize"), Single(<<"dstr">>, "OptS"),
     Single(<<"dnullstr">>, "OptS"), Single(<<"dxnullstr">>, "S"),
     Single(<<"dseqvmap">>, "VecE"), Single(<<"dnullstr">>, "unit"),
     Single(<<"daliasvmap">>, "IgnE"), Single(<<"dstr">>, "i16"),
     Single(<<"dsyntax">>, "usize"), Single(<<"dunknown">>, "String"),
     Single(<<"dseqkey">>, "Take1"), Single(<<"dseqkey">>, "Take0"),
     Single(<<"dspan">>, "SpVecSpUsize"), Single(<<"dspannest">>, "SpVecSpVecUsize"),
     Single(<<"d1">>, "SpUsize"), Single(<<"dstr">>, "SpUsize"),
     Single(<<"dalias">>, "VecSpUsize"), Single(<<"dbasic">>, "SpBasic"),
     Single(<<"dsyntax">>, "SpUsize"),
     Single(<<"dsome">>, "S"), Single(<<"denums">>, "VecE4"),
     Single(<<"dskipN">>, "S"), Single(<<"dseqN">>, "Take0"),
     Single(<<"daliasseq">>, "SpVecAndVec"),
     Single(<<"dsome">>, "SpS"), Single(<<"dsome">>, "NestedSp"),
     Single(<<"dmaps">>, "VecSpS")}

Init ==
    /\ \E input \in Inputs :
          /\ desers = <<Deserializer(input.progress, input.docs, input.io, "", NoErr)>>
          /\ target = input.target
          /\ usage = input.usage
    /\ task = 0
    /\ doc = "d0"
    /\ ctl = Idle
    /\ stack = <<>>
    /\ cells = <<>>
    /\ des = <<>>
    /\ accs = <<>>
    /\ entered = <<>>

\* f(&mut DeserializerFromEvents { document, pos: &mut 0, path: Root,
\* remaining_depth: 128 }), f being T::deserialize
Start(i, d) ==
    /\ task' = i
    /\ doc' = d
    /\ ctl' = Call("deserialize", target, 1)
    /\ stack' = <<>>
    /\ cells' = <<0>>
    /\ des' = <<Cursor(1, Path_Root, DefaultDepth)>>
    /\ accs' = <<>>
    /\ entered' = <<>>

Finished(i, res) ==
    /\ desers' = [desers EXCEPT ![i].called = TRUE, ![i].res = res]
    /\ UNCHANGED <<task, doc, ctl, stack, cells, des, accs, entered>>

\* a de that takes up an iterated stream where next() left it: the next
\* document of the loader is decoded
de_resuming(i) ==
    /\ task = 0
    /\ ~desers[i].called
    /\ LET self == desers[i]
           loader == Loader_new(self.progress, self.io, self.err)
           document == next_document(self.docs, self.count)
       IN  CASE self.progress = "Document" ->
                   /\ desers' = [desers EXCEPT ![i].called = TRUE]
                   /\ Start(i, self.doc)
             [] OTHER ->
                   IF ~loader.ok THEN Finished(i, loader)
                   ELSE IF ~document.some THEN Finished(i, Err(end_of_stream))
                   ELSE /\ desers' = [desers EXCEPT ![i].called = TRUE,
                                                    ![i].count = @ + 1]
                        /\ Start(i, document.doc)
    /\ UNCHANGED <<target, usage>>

\* Deserializer::de, up to the call of f
de(i) ==
    /\ task = 0
    /\ ~desers[i].called
    /\ LET self == desers[i]
           loader == Loader_new(self.progress, self.io, self.err)
           document == next_document(self.docs, 0)
       IN  CASE self.progress = "Iterable" -> Finished(i, Err(more_than_one_document))
             [] self.progress = "Document" ->
                   /\ desers' = [desers EXCEPT ![i].called = TRUE]
                   /\ Start(i, self.doc)
             [] OTHER ->
                   IF ~loader.ok THEN Finished(i, loader)
                   ELSE IF ~document.some THEN Finished(i, Err(end_of_stream))
                   ELSE /\ desers' = [desers EXCEPT ![i].called = TRUE, ![i].count = 1]
                        /\ Start(i, document.doc)
    /\ UNCHANGED <<target, usage>>

\* de after f has returned, looking for a second document before it looks at
\* what f returned
de_return_eager ==
    /\ task # 0
    /\ ctl.t = "ret"
    /\ stack = <<>>
    /\ LET self == desers[task]
           res == IF self.progress = "Document" THEN ctl.res
                  ELSE IF ~next_document(self.docs, self.count).some THEN ctl.res
                  ELSE Err(more_than_one_document)
       IN  desers' = [desers EXCEPT ![task].res = res]
    /\ task' = 0
    /\ ctl' = Idle
    /\ cells' = <<>>
    /\ des' = <<>>
    /\ UNCHANGED <<doc, stack, accs, entered, target, usage>>

\* Deserializer::de, after f has returned
de_return ==
    /\ task # 0
    /\ ctl.t = "ret"
    /\ stack = <<>>
    /\ LET self == desers[task]
           res == IF self.progress = "Document" \/ ~ctl.res.ok THEN ctl.res
                  ELSE IF ~next_document(self.docs, self.count).some THEN ctl.res
                  ELSE Err(more_than_one_document)
       IN  desers' = [desers EXCEPT ![task].res = res]
    /\ task' = 0
    /\ ctl' = Idle
    /\ cells' = <<>>
    /\ des' = <<>>
    /\ UNCHANGED <<doc, stack, accs, entered, target, usage>>

\* Display of libyaml::Mark: one-based line and column, or the byte position
\* of a mark on line 0, column 0
mark_text(mark) ==
    IF mark.line # 0 \/ mark.column # 0
    THEN <<"line ", mark.line + 1, " column ", mark.column + 1>>
    ELSE <<"position ", mark.index>>

RECURSIVE path_to_string(_)
\* path.to_string(): "." for the root, parent[index] for an element,
\* parent.key for an entry, parent for an alias and parent.? for an unnamed key
path_to_string(path) ==
    IF path = <<>> THEN <<".">>
    ELSE LET parent == Front(path)
             seg == Last(path)
             dotted == IF parent = <<>> THEN <<>> ELSE path_to_string(parent) \o <<".">>
         IN  CASE seg[1] = "Seq" -> path_to_string(parent) \o <<"[", seg[2], "]">>
               [] seg[1] = "Map" -> dotted \o seg[2]
               [] seg[1] = "Alias" -> path_to_string(parent)
               [] seg[1] = "Unknown" -> dotted \o <<"?">>

\* the String msg of ErrorImpl::Message, kept as serde's constructor built it
msg_of(error) == [what |-> error.what, unexp |-> error.unexp, exp |-> error.exp]

RECURSIVE display_pathless(_)
\* a display that never writes the path of a Message
display_pathless(error) ==
    CASE error.kind = "Message" ->
            IF ~error.pos.some THEN <<msg_of(error)>>
            ELSE <<msg_of(error), " at ">> \o mark_text(error.pos.mark)
      [] error.kind = "Libyaml" -> <<"libyaml::Error at ">> \o mark_text(error.mark)
      [] error.kind = "Io" -> <<"io::Error">>
      [] error.kind = "EndOfStream" -> <<"EOF while parsing a value">>
      [] error.kind = "MoreThanOneDocument" ->
            <<"deserializing from YAML containing more than one document is not supported">>
      [] error.kind = "RecursionLimitExceeded" ->
            <<"recursion limit exceeded at ">> \o mark_text(error.mark)
      [] error.kind = "UnknownAnchor" -> <<"unknown anchor at ">> \o mark_text(error.mark)
      [] error.kind = "Shared" -> display_pathless(error.inner)

RECURSIVE display(_)
\* ErrorImpl::display: the text of an error, as the sequence of its pieces
display(error) ==
    CASE error.kind = "Message" ->
            IF ~error.pos.some THEN <<msg_of(error)>>
            ELSE IF path_to_string(error.pos.path) = <<".">>
            THEN <<msg_of(error), " at ">> \o mark_text(error.pos.mark)
            ELSE path_to_string(error.pos.path)
                     \o <<": ", msg_of(error), " at ">> \o mark_text(error.pos.mark)
      [] error.kind = "Libyaml" -> <<"libyaml::Error at ">> \o mark_text(error.mark)
      [] error.kind = "Io" -> <<"io::Error">>
      [] error.kind = "EndOfStream" -> <<"EOF while parsing a value">>
      [] error.kind = "MoreThanOneDocument" ->
            <<"deserializing from YAML containing more than one document is not supported">>
      [] error.kind = "RecursionLimitExceeded" ->
            <<"recursion limit exceeded at ">> \o mark_text(error.mark)
      [] error.kind = "UnknownAnchor" -> <<"unknown anchor at ">> \o mark_text(error.mark)
      [] error.kind = "Shared" -> display(error.inner)

\* err.to_string() on the error de returned: Display for Error
\* Location::from_mark: the line and the column are made one-based
Location_from_mark(mark) ==
    [index |-> mark.index, line |-> mark.line + 1, column |-> mark.column + 1]

RECURSIVE ErrorImpl_location(_)
\* ErrorImpl::location
ErrorImpl_location(error) ==
    CASE error.kind = "Message" /\ error.pos.some -> Some(Location_from_mark(error.pos.mark))
      [] error.kind = "Libyaml" -> Some(Location_from_mark(error.mark))
      [] error.kind = "Shared" -> ErrorImpl_location(error.inner)
      [] OTHER -> None

\* err.location() on the error that Deserializer i returned
Error_location(i) ==
    /\ task = 0
    /\ desers[i].called
    /\ ~desers[i].res.ok /\ ~desers[i].res.halt
    /\ ~desers[i].loc.some
    /\ desers' = [desers EXCEPT ![i].loc = Some(ErrorImpl_location(desers[i].res.err))]
    /\ UNCHANGED <<task, doc, ctl, stack, cells, des, accs, entered, target, usage>>

to_string(i) ==
    /\ task = 0
    /\ desers[i].called
    /\ ~desers[i].res.ok /\ ~desers[i].res.halt
    /\ ~desers[i].text.some
    /\ desers' = [desers EXCEPT ![i].text = Some(display(desers[i].res.err))]
    /\ UNCHANGED <<task, doc, ctl, stack, cells, des, accs, entered, target, usage>>

RECURSIVE NextCalls(_)
\* how many times the user's program has called next() on the first n
NextCalls(n) == IF n = 0 THEN 0 ELSE Len(desers[n].out) + NextCalls(n - 1)

\* next, Progress::Iterable arm with the document dropped: the same document
\* is handed out again
next_Iterable_stuck(i, document) ==
    IF ~document.some
    THEN desers' = [desers EXCEPT ![i].progress = "Iterable", ![i].out = Append(@, 0)]
    ELSE desers' = [Append(desers, Deserializer("Document", <<>>, FALSE, document.doc, NoErr))
                        EXCEPT ![i].progress = "Iterable",
                               ![i].out = Append(@, Len(desers) + 1)]

\* next, arm Progress::Iterable(loader): loader.next_document()? wrapped in a
\* Deserializer of Progress::Document; None at the end of the stream
next_Iterable(i, document) ==
    IF ~document.some
    THEN desers' = [desers EXCEPT ![i].progress = "Iterable", ![i].out = Append(@, 0)]
    ELSE desers' = [Append(desers, Deserializer("Document", <<>>, FALSE, document.doc, NoErr))
                        EXCEPT ![i].progress = "Iterable", ![i].count = @ + 1,
                               ![i].out = Append(@, Len(desers) + 1)]

\* next, Err arm that hands the error out without keeping it
next_Err_forgetful(i, err) ==
    desers' = [Append(desers, Deserializer("Fail", <<>>, FALSE, "", error_shared(err)))
                   EXCEPT ![i].out = Append(@, Len(desers) + 1)]

\* next, arm Err(err) of Loader::new: fail = err.shared() is kept in
\* Progress::Fail and a clone is handed out
next_Err(i, err) ==
    desers' = [Append(desers, Deserializer("Fail", <<>>, FALSE, "", error_shared(err)))
                   EXCEPT ![i].progress = "Fail", ![i].err = error_shared(err),
                          ![i].out = Append(@, Len(desers) + 1)]

\* Iterator::next
next(i) ==
    /\ usage = "iterate"
    /\ task = 0
    /\ ~desers[i].called
    /\ NextCalls(Len(desers)) < MaxNext
    /\ LET self == desers[i]
           loader == Loader_new(self.progress, self.io, self.err)
       IN  CASE self.progress = "Document" ->
                   desers' = [desers EXCEPT ![i].out = Append(@, 0)]
             [] self.progress = "Fail" ->
                   desers' = [Append(desers, Deserializer("Fail", <<>>, FALSE, "", self.err))
                                  EXCEPT ![i].out = Append(@, Len(desers) + 1)]
             \* Iterable, or Str / Read made Iterable by a Loader
             [] self.progress = "Iterable" \/ loader.ok ->
                   next_Iterable(i, next_document(self.docs, self.count))
             [] OTHER -> next_Err(i, loader.err)
    /\ UNCHANGED <<task, doc, ctl, stack, cells, des, accs, entered, target, usage>>

RECURSIVE SequenceEndFrom(_, _, _)
\* the loop of index_of_sequence_end from the j-th event on
SequenceEndFrom(events, j, nesting_level) ==
    IF j > Len(events) THEN Err(end_of_stream)
    ELSE IF events[j].type = "SequenceStart"
    THEN SequenceEndFrom(events, j + 1, nesting_level + 1)
    ELSE IF events[j].type = "SequenceEnd"
    THEN IF nesting_level - 1 = 0 THEN Ok(events[j].mark.index + 1)
         ELSE SequenceEndFrom(events, j + 1, nesting_level - 1)
    ELSE SequenceEndFrom(events, j + 1, nesting_level)

\* index_of_sequence_end as it would be if it stopped at the first SequenceEnd
index_of_first_sequence_end(document, pos) ==
    LET ends == {j \in (pos + 1)..Len(document.events) :
                    document.events[j].type = "SequenceEnd"}
    IN  IF ends = {} THEN Err(end_of_stream)
        ELSE Ok(document.events[Min(ends)].mark.index + 1)

\* SpannedMapAccess::index_of_sequence_end, self.pos being pos
index_of_sequence_end(document, pos) == SequenceEndFrom(document.events, pos + 1, 0)

RECURSIVE MappingEndFrom(_, _, _, _)
\* the loop of index_of_mapping_end from the j-th event on
MappingEndFrom(events, j, nesting_level, last_index) ==
    IF j > Len(events)
    THEN IF last_index.some THEN Ok(last_index.v) ELSE Err(end_of_stream)
    ELSE IF events[j].type = "SequenceEnd" /\ nesting_level - 1 = 0
    THEN IF last_index.some THEN Ok(last_index.v) ELSE Err(end_of_stream)
    ELSE MappingEndFrom(events, j + 1,
                        CASE events[j].type = "SequenceStart" -> nesting_level + 1
                          [] events[j].type = "SequenceEnd" -> nesting_level - 1
                          [] OTHER -> nesting_level,
                        Some(events[j].mark.index))

\* SpannedMapAccess::index_of_mapping_end: the slice starts at self.pos - 1,
\* which does not exist for the root
index_of_mapping_end(document, pos) ==
    IF pos = 0 THEN Halt("attempt to subtract with overflow")
    ELSE MappingEndFrom(document.events, pos, 0, None)

\* SpannedMapAccess::start_location
start_location(document, pos) == document.events[pos + 1].mark.index

\* SpannedMapAccess::current_item_length
current_item_length(document, pos) ==
    LET event == document.events[pos + 1]
        end == IF event.type = "SequenceStart" THEN index_of_sequence_end(document, pos)
               ELSE index_of_mapping_end(document, pos)
    IN  IF event.type = "Scalar" THEN Ok(Len(event.value))
        ELSE IF event.type \in {"SequenceStart", "MappingStart"}
        THEN IF end.ok THEN Ok(end.val - event.mark.index) ELSE end
        ELSE Ok(0)

\* Spanned's Visitor::visit_map once the value has been decoded, the map
\* access being in `state`: the length entry, then the path entry, then
\* Spanned::new of the start, the length, the path and the value
spanned_visit_map(document, pos, path, value, length, state) ==
    LET len == visit_map_length[state]
        at == visit_map_path[len.state]
    IN  IF ~value.ok THEN value
        ELSE IF ~len.res.ok THEN len.res
        ELSE IF ~length.ok THEN length
        ELSE IF ~at.res.ok THEN at.res
        ELSE Ok(Value("spanned", [start |-> start_location(document, pos),
                                  len |-> length.val,
                                  path |-> path_to_string(path),
                                  value |-> value.val]))

\* a span capture that takes the start and the length at the event the
\* cursor has reached once the value is decoded (the last event, at the end)
visit_spanned_return_late ==
    /\ ctl.t = "ret" /\ stack # <<>>
    /\ Last(stack).k = "visit_spanned"
    /\ LET f == Last(stack)
           late == IF pos_of(f.de) < Len(Document.events) THEN pos_of(f.de)
                   ELSE Len(Document.events) - 1
       IN  /\ des' = [des EXCEPT ![f.de].depth =
                          restored_depth(f.previous_depth, des[f.de].depth)]
           /\ stack' = Front(stack)
           /\ ctl' = Return(spanned_visit_map(Document, late, PathOf(f.de), ctl.res,
                                              current_item_length(Document, late), f.state))
    /\ UNCHANGED <<Outer, cells, accs, entered>>

\* the value of a Spanned has been decoded: the visitor finishes and
\* recursion_check puts the depth back
visit_spanned_return ==
    /\ ctl.t = "ret" /\ stack # <<>>
    /\ Last(stack).k = "visit_spanned"
    /\ LET f == Last(stack)
       IN  /\ des' = [des EXCEPT ![f.de].depth =
                          restored_depth(f.previous_depth, des[f.de].depth)]
           /\ stack' = Front(stack)
           /\ ctl' = Return(spanned_visit_map(Document, f.at, PathOf(f.de), ctl.res,
                                              current_item_length(Document, f.at), f.state))
    /\ UNCHANGED <<Outer, cells, accs, entered>>

Next ==
    \/ \E i \in 1..Len(desers) : de(i)
    \/ de_return
    \/ \E i \in 1..Len(desers) : to_string(i)
    \/ \E i \in 1..Len(desers) : Error_location(i)
    \/ \E i \in 1..Len(desers) : next(i)
    \/ deserialize_any
    \/ deserialize_bool
    \/ deserialize_i64
    \/ deserialize_u64
    \/ deserialize_str
    \/ deserialize_scalar
    \/ deserialize_option
    \/ deserialize_newtype_struct
    \/ deserialize_seq
    \/ deserialize_struct
    \/ visit_spanned_return
    \/ deserialize_enum
    \/ deserialize_ignored_any
    \/ ignore_any
    \/ jump_return
    \/ recursion_check_return
    \/ end_sequence
    \/ end_mapping
    \/ next_element_seed
    \/ next_key_seed
    \/ next_value_seed
    \/ element_return
    \/ value_return
    \/ visit_seq
    \/ visit_seq_element
    \/ visit_map
    \/ visit_map_entry
    \/ visit_take_entry
    \/ deserialize_enum_return
    \/ visit_enum
    \/ variant_seed
    \/ unwrap_err_return
    \/ visit_enum_variant
    \/ variant_return
    \/ stack_overflow

Spec == Init /\ [][Next]_vars

---------------------------------------------------------------------------
(* Properties.                                                             *)

\* de has returned on Deserializer i
Returned(i) == desers[i].called /\ task # i
\* Deserializer i is as constructed from a string or a reader: neither
\* iterated nor handed out by an iteration
Fresh(i) == desers[i].progress \in {"Str", "Read"}
LoaderBuilt(i) == Loader_new(desers[i].progress, desers[i].io, desers[i].err).ok
\* the document de decodes on Deserializer i
DocumentOf(i) ==
    IF desers[i].progress = "Document" THEN desers[i].doc ELSE desers[i].docs[1]
\* Deserializer i decodes (or has decoded) document d
Decodes(i, d) ==
    /\ desers[i].called
    /\ \/ desers[i].progress = "Document"
       \/ Fresh(i) /\ LoaderBuilt(i) /\ desers[i].docs # <<>>
    /\ DocumentOf(i) = d

\* the step in which de returns on Deserializer i, and what it then returns
DeReturns(i) == ~Returned(i) /\ desers'[i].called /\ task' # i

\* C1 (as amended): de on a fresh Deserializer whose loader is built returns
\* EndOfStream for an empty stream, what f returned for a stream of one
\* document, and for a longer stream the error of f if f failed on the first
\* document, MoreThanOneDocument otherwise; it never returns a value then.
C1_SingleValueEntry ==
    [][\A i \in 1..Len(desers) :
          (Fresh(i) /\ LoaderBuilt(i) /\ DeReturns(i)) =>
              /\ Len(desers[i].docs) = 0 => desers'[i].res = Err(end_of_stream)
              /\ Len(desers[i].docs) = 1 => task = i /\ desers'[i].res = ctl.res
              /\ Len(desers[i].docs) >= 2 =>
                    /\ task = i
                    /\ ~desers'[i].res.ok
                    /\ desers'[i].res = IF ctl.res.ok THEN Err(more_than_one_document)
                                        ELSE ctl.res]_vars

\* C1 witness: de has returned the decode error of the first of two documents
C1_Witness ==
    \E i \in 1..Len(desers) :
        /\ Fresh(i) /\ Returned(i) /\ Len(desers[i].docs) >= 2
        /\ ~desers[i].res.ok /\ desers[i].res.err.kind = "Message"

\* C1 as stated: with two or more documents de fails with MoreThanOneDocument
C1_AsStated ==
    [][\A i \in 1..Len(desers) :
          (Fresh(i) /\ LoaderBuilt(i) /\ DeReturns(i)) =>
              /\ Len(desers[i].docs) = 0 => desers'[i].res = Err(end_of_stream)
              /\ Len(desers[i].docs) = 1 => task = i /\ desers'[i].res = ctl.res
              /\ Len(desers[i].docs) >= 2 =>
                    desers'[i].res = Err(more_than_one_document)]_vars

\* what decoding a document of the iterated streams gives when it is the
\* only thing decoded
Alone(d, shape) ==
    CASE d = "d0" /\ shape = "usize" -> Ok(Value("u64", Num(FALSE, <<>>)))
      [] d = "d1" /\ shape = "usize" -> Ok(Value("u64", Num(FALSE, <<1>>)))
      [] d = "dstr" /\ shape = "usize" ->
            Err(fix_mark(invalid_type_of(Visit("str", <<"s", "t", "r">>), "usize"),
                         Mark(4, 1, 0), <<>>))
      [] d = "dsyntax" -> Err(shared(libyaml_error(Mark(4, 1, 0))))
      [] d = "dunknown" -> Err(shared(unknown_anchor(Mark(4, 1, 0))))

\* Deserializer i iterates a stream of documents
Iterates(i) == desers[i].progress \in {"Str", "Read", "Iterable"} /\ ~desers[i].io

\* C2: the k-th next() on a stream of n documents hands out a Deserializer of
\* the k-th document for k <= n and None afterwards; what de returns on a
\* handed-out document is what that document gives alone, whatever happened
\* to the other documents, and it never changes afterwards.
C2_Iteration ==
    /\ [](\A i \in 1..Len(desers) : Iterates(i) =>
            \A k \in 1..Len(desers[i].out) :
                IF k <= Len(desers[i].docs)
                THEN /\ desers[i].out[k] # 0
                     /\ desers[desers[i].out[k]].progress = "Document"
                     /\ desers[desers[i].out[k]].doc = desers[i].docs[k]
                     /\ Returned(desers[i].out[k]) =>
                           desers[desers[i].out[k]].res = Alone(desers[i].docs[k], target)
                ELSE desers[i].out[k] = 0)
    /\ [][\A i \in 1..Len(desers) : Returned(i) => desers'[i].res = desers[i].res]_vars

\* C2 witness: the first document has given 1, the second its syntax error,
\* and the stream has ended
C2_Witness ==
    /\ desers[1].docs = <<"d1", "dsyntax">>
    /\ Len(desers[1].out) = 3 /\ desers[1].out[3] = 0
    /\ Returned(desers[1].out[1]) /\ desers[desers[1].out[1]].res.ok
    /\ Returned(desers[1].out[2]) /\ ~desers[desers[1].out[2]].res.ok

\* C3: once building the loader has failed in next(), the Deserializer is in
\* Fail and stays there with the same error; every next() from then on hands
\* out a Deserializer that fails with that error, shared; nothing is parsed.
C3_FailReplayed ==
    /\ [](\A i \in 1..Len(desers) :
            /\ (desers[i].io /\ desers[i].out # <<>>) => desers[i].progress = "Fail"
            /\ desers[i].progress = "Fail" =>
                  /\ desers[i].count = 0
                  /\ \A k \in 1..Len(desers[i].out) :
                        /\ desers[i].out[k] # 0
                        /\ desers[desers[i].out[k]].progress = "Fail"
                        /\ desers[desers[i].out[k]].err = desers[i].err
                  /\ Returned(i) => desers[i].res = Err(shared(desers[i].err)))
    /\ [][\A i \in 1..Len(desers) :
             desers[i].progress = "Fail" =>
                 desers'[i].progress = "Fail" /\ desers'[i].err = desers[i].err]_vars

\* C3 witness: two next() calls after the failure, both handed-out
\* Deserializers decoded, both with the one error
C3_Witness ==
    /\ desers[1].io /\ desers[1].progress = "Fail" /\ Len(desers[1].out) >= 2
    /\ Returned(desers[1].out[1]) /\ Returned(desers[1].out[2])
    /\ desers[desers[1].out[1]].res = Err(shared(io_error))
    /\ desers[desers[1].out[2]].res = desers[desers[1].out[1]].res

\* the raw event at which the loader stopped: an alias without an earlier anchor
UnknownAliasOf(d) ==
    RawDocs[d].events[Min({i \in 1..Len(RawDocs[d].events) :
                               IsUnknownAlias(RawDocs[d].events, i)})]
HasUnknownAlias(d) ==
    \E i \in 1..Len(RawDocs[d].events) : IsUnknownAlias(RawDocs[d].events, i)

\* C4: jump never finds an alias unresolved, and the decode of a document with
\* an alias without an earlier anchor - read as an element, or inside a field
\* that is only skipped - returns UnknownAnchor with the mark of that alias.
C4_UnknownAnchor ==
    /\ ctl.t = "panic" => ctl.msg # "unresolved alias"
    /\ \A i \in 1..Len(desers) :
          \A d \in DocIds :
              (Decodes(i, d) /\ Returned(i) /\ HasUnknownAlias(d)) =>
                  desers[i].res = Err(shared(unknown_anchor(UnknownAliasOf(d).mark)))

\* C4 witness: the alias was inside the skipped field b of "b: [*a]\nc: ~\n"
C4_Witness ==
    /\ Decodes(1, "dignored") /\ Returned(1)
    /\ desers[1].res = Err(shared(unknown_anchor(Mark(4, 0, 4))))

\* the error a read at or past the end of the buffered events returns
Deferred(document) ==
    IF document.error.kind # "None" THEN shared(document.error) ELSE end_of_stream

\* C5: a read fails exactly at or past the end of the buffered events, with
\* the document's deferred error, shared, or EndOfStream; before the end it
\* delivers the event; next_event_mark moves the position by one on success
\* and not at all on failure, so no position ever passes the end, a read at
\* the end fails again the same way, and the step in which a read fails
\* leaves every position where it was.
C5_LazyError ==
    /\ [](task # 0 =>
            /\ \A c \in 1..Len(cells) : cells[c] \in 0..Len(Document.events)
            /\ \A c \in 1..Len(cells) :
                  LET pos == cells[c]
                      peek == peek_event_mark(Document, pos)
                      read == next_event_mark(Document, pos)
                  IN  /\ peek.ok <=> pos < Len(Document.events)
                      /\ read.res = peek
                      /\ peek.ok => peek.val = Document.events[pos + 1] /\ read.pos = pos + 1
                      /\ ~peek.ok =>
                            /\ peek.err = Deferred(Document)
                            /\ read.pos = pos
                            /\ next_event_mark(Document, read.pos) = read)
    /\ [][(/\ task # 0
           /\ ctl.t \in {"call", "loop"}
           /\ ctl'.t = "ret"
           /\ ~ctl'.res.ok
           /\ ctl'.res.err = Deferred(Document)) => cells' = cells]_vars

\* C5 witness: the events before the unknown alias of "b: [*a]" were read, the
\* read at the end has just failed with the deferred error
C5_Witness ==
    /\ task # 0 /\ doc = "dignored"
    /\ ctl.t = "ret" /\ ~ctl.res.ok
    /\ ctl.res.err = shared(unknown_anchor(Mark(4, 0, 4)))
    /\ \E c \in 1..Len(cells) : cells[c] = Len(Document.events) /\ cells[c] = 3

\* the positions of the events that open a container, in document order
Openings ==
    [d \in DocIds |->
        SelectSeq([i \in 1..Len(Documents[d].events) |-> i - 1],
                  LAMBDA p : Documents[d].events[p + 1].type
                                 \in {"SequenceStart", "MappingStart"})]
\* the mark of the n-th container that document d opens
OpeningMark(d, n) == Documents[d].events[Openings[d][n] + 1].mark

\* Deserializer i decodes the deeply nested sequences or mappings into a
\* shape that nests as deep as the document
DecodesNested(i, d) ==
    /\ Decodes(i, d)
    /\ \/ d = "dseqN" /\ target \in {"S", "L"}
       \/ d = "dmapN" /\ target = "S"

\* C6 (as amended): decoding the deeply nested containers with the default
\* budget fails with RecursionLimitExceeded, and the mark of the error is
\* that of the container opened after the first 128, the 129th.
C6_NestedLimit ==
    \A i \in 1..Len(desers) :
        \A d \in {"dseqN", "dmapN"} :
            (DecodesNested(i, d) /\ Returned(i)) =>
                desers[i].res =
                    Err(recursion_limit_exceeded(OpeningMark(d, DefaultDepth + 1)))

\* C6 witness: the nested sequences have failed at index 128, the 129th "["
C6_Witness ==
    /\ DecodesNested(1, "dseqN") /\ Returned(1)
    /\ desers[1].res = Err(recursion_limit_exceeded(Mark(DefaultDepth, 0, DefaultDepth)))

\* C6 as stated: the mark of the error is that of the 128th opening container
C6_AsStated ==
    \A i \in 1..Len(desers) :
        \A d \in {"dseqN", "dmapN"} :
            (DecodesNested(i, d) /\ Returned(i)) =>
                desers[i].res =
                    Err(recursion_limit_exceeded(OpeningMark(d, DefaultDepth)))

\* C7: of the deeply nested containers the visitor sees the first 128, in
\* order, and no other; the decode fails with RecursionLimitExceeded at the
\* mark of the 129th, shown as column 129 for the sequences and column 641
\* for the mappings (a shown column is the mark's column plus one).
C7_First128Entered ==
    \A i \in 1..Len(desers) :
        \A d \in {"dseqN", "dmapN"} :
            DecodesNested(i, d) =>
                /\ Len(entered) <= DefaultDepth
                /\ \A k \in 1..Len(entered) : entered[k] = Openings[d][k]
                /\ Returned(i) =>
                      /\ Len(entered) = DefaultDepth
                      /\ ~desers[i].res.ok
                      /\ desers[i].res.err.kind = "RecursionLimitExceeded"
                      /\ desers[i].res.err.mark = OpeningMark(d, Len(entered) + 1)
                      /\ desers[i].res.err.mark.column + 1 =
                            IF d = "dseqN" THEN 129 ELSE 641

\* C7 witness: the nested mappings have failed at column 641 with 128
\* mappings entered
C7_Witness ==
    /\ DecodesNested(1, "dmapN") /\ Returned(1)
    /\ Len(entered) = DefaultDepth
    /\ desers[1].res.err.kind = "RecursionLimitExceeded"
    /\ desers[1].res.err.mark.column + 1 = 641

\* the traversals that recursion_check guards and whose visitor is running:
\* the containers, and the span captures
OpenGuarded ==
    Cardinality({j \in 1..Len(stack) :
                    stack[j].k \in {"visit_sequence", "visit_mapping", "visit_spanned"}})

\* C8: the remaining depth of the cursor in use is the budget less the
\* guarded containers that are open around it: a container that has returned,
\* with a value or with an error, has given back what it took, so a later
\* sibling starts with what the earlier one started with.
C8_DepthRestored ==
    (task # 0 /\ des # <<>>) => des[Len(des)].depth = DefaultDepth - OpenGuarded

\* C8 witness: in "[[[0]], 1]" the element 1 is about to be decoded, after the
\* three containers of its sibling, with all of the budget but the one unit
\* of the sequence it is in
C8_Witness ==
    /\ task # 0 /\ doc = "dsib"
    /\ ctl.t = "call" /\ ctl.fn = "deserialize" /\ ctl.shape = "usize"
    /\ Len(entered) = 3
    /\ OpenGuarded = 1
    /\ des[Len(des)].depth = DefaultDepth - 1

\* the containers entered and not yet left on the current decode path: those
\* whose visitor is running, those being drained to their end event, and the
\* singleton mappings of enum variants
OpenContainers ==
    Cardinality({j \in 1..Len(stack) :
                    stack[j].k \in {"visit_sequence", "visit_mapping", "end_sequence",
                                    "end_mapping", "deserialize_enum"}})

\* C9 as stated: the containers entered and not yet left on the current
\* decode path never number more than the budget of 128.
C9_OpenContainersBounded == OpenContainers <= DefaultDepth

\* C10 as stated: a deserialize call ends with a value or an error; it does
\* not run the program out of stack.
C10_Terminates == ctl.t # "overflow"

\* the unterminated brackets decoded into a shape that nests with them, or
\* skipped whole
OpenBracketsDecoded(i) ==
    /\ task = i /\ doc = "dopenN" /\ target \in {"L", "S", "Ignored"}
    /\ DeReturns(i)

\* C11 (as amended): the deferred syntax error of the unterminated brackets
\* comes after their buffered events, so a decode returns it exactly when it
\* has read to the end of those events, as the decode that skips them does; a
\* decode into a nesting shape stops at the 129th bracket, before the end,
\* with RecursionLimitExceeded at that bracket's mark.
C11_OpenBrackets ==
    [][\A i \in 1..Len(desers) :
          OpenBracketsDecoded(i) =>
              /\ desers'[i].res = Err(shared(Documents[doc].error))
                    <=> cells[1] = Len(Documents[doc].events)
              /\ target = "Ignored" =>
                    desers'[i].res = Err(shared(libyaml_error(L0(Nesting))))
              /\ target \in {"L", "S"} =>
                    /\ cells[1] = DefaultDepth + 1
                    /\ desers'[i].res =
                          Err(recursion_limit_exceeded(
                                  OpeningMark("dopenN", DefaultDepth + 1)))]_vars

\* C11 witness: the unterminated brackets decoded as struct L(Vec<L>) have
\* failed at the 129th bracket
C11_Witness ==
    /\ Decodes(1, "dopenN") /\ Returned(1) /\ target = "L"
    /\ desers[1].res = Err(recursion_limit_exceeded(Mark(DefaultDepth, 0, DefaultDepth)))

\* C11 as stated: decoding the unterminated brackets fails with the Source's
\* syntax error and not with RecursionLimitExceeded
C11_AsStated ==
    [][\A i \in 1..Len(desers) :
          OpenBracketsDecoded(i) =>
              desers'[i].res = Err(shared(libyaml_error(L0(Nesting))))]_vars

\* containers opened less containers closed by the events s..j
Opened(events, s, j) ==
    Cardinality({x \in s..j : events[x].type \in {"SequenceStart", "MappingStart"}})
        - Cardinality({x \in s..j : events[x].type \in {"SequenceEnd", "MappingEnd"}})
\* the end event of the container that event s opens
EndOf(events, s) == Min({j \in (s + 1)..Len(events) : Opened(events, s, j) = 0})
\* the events that begin the nodes directly inside the container that event s opens
NodesIn(events, s) ==
    {j \in (s + 1)..(EndOf(events, s) - 1) :
        /\ Opened(events, s, j - 1) = 1
        /\ events[j].type \notin {"SequenceEnd", "MappingEnd"}}
\* the number of elements of the sequence, or of entries of the mapping
TrueLength(events, s) ==
    IF events[s].type = "SequenceStart" THEN Cardinality(NodesIn(events, s))
    ELSE Cardinality(NodesIn(events, s)) \div 2
\* "sequence of k elements" / "map containing k entries"
LengthText(type, k) ==
    IF type = "SequenceStart"
    THEN IF k = 1 THEN <<"sequence of 1 element">> ELSE <<"sequence of ", k, " elements">>
    ELSE IF k = 1 THEN <<"map containing 1 entry">> ELSE <<"map containing ", k, " entries">>

\* the visitor of a container has returned a value, what it left unread has
\* been skipped, and the engine is about to read the container's end event
AtContainerEnd ==
    /\ task # 0 /\ ctl.t = "ret" /\ ctl.res.ok /\ stack # <<>>
    /\ Last(stack).k \in {"end_sequence", "end_mapping"}
    /\ Last(stack).fix
    /\ Last(stack).entry = "key"
    /\ ~ctl.res.val.some

\* C12: when the visitor of a sequence or mapping of n elements (entries) has
\* returned a value having taken k of them, the engine skips the other n - k,
\* reads the end event, and returns the value if n = k and otherwise "invalid
\* length n, expected sequence of k elements" ("1 element", "map containing k
\* entries"), at the container's mark; asking past the last element gives
\* None and moves nothing, so a tuple of size 3 fails on 2 elements with its
\* own "invalid length 2, expected a tuple of size 3".
C12_Drained ==
    /\ [][AtContainerEnd =>
            LET f == Last(stack)
                d == accs[f.acc].de
                events == Document.events
                n == TrueLength(events, f.at + 1)
                k == f.len
            IN  /\ f.value.ty \in {"seq", "tuple", "take"} => k = Len(f.value.v)
                /\ k <= n
                /\ pos_of(d) + 1 = EndOf(events, f.at + 1)
                /\ cells'[des[d].cell] = pos_of(d) + 1
                /\ ctl'.t = "ret"
                /\ ctl'.res =
                      IF n = k THEN Ok(f.value)
                      ELSE Err(fix_mark(message("invalid length", n,
                                                [text |-> LengthText(events[f.at + 1].type, k),
                                                 n |-> k]),
                                        MarkAt(f.at), PathOf(d)))]_vars
    /\ [][(/\ task # 0 /\ ctl.t = "call" /\ ctl.fn = "next_element"
           /\ Len(stack) < MaxStack
           /\ pos_of(accs[ctl.arg].de) < Len(Document.events)
           /\ Document.events[pos_of(accs[ctl.arg].de) + 1].type = "SequenceEnd")
              => ctl' = Return(Ok(None)) /\ cells' = cells /\ accs' = accs]_vars
    /\ [](\A i \in 1..Len(desers) :
            (Decodes(i, "dtuple2") /\ Returned(i) /\ target = "Tuple3") =>
                desers[i].res =
                    Err(fix_mark(message("invalid length", 2,
                                         [text |-> "a tuple of size 3", n |-> 0]),
                                 Mark(4, 1, 0), <<>>)))

\* C12 witness: "[0, 0, 0]" decoded as (u8,) has taken one element, skipped
\* two, and failed with "invalid length 3, expected sequence of 1 element"
C12_Witness ==
    /\ Decodes(1, "dtuple3") /\ Returned(1) /\ target = "Tuple1"
    /\ desers[1].res =
          Err(fix_mark(message("invalid length", 3,
                               [text |-> <<"sequence of 1 element">>, n |-> 1]),
                       Mark(4, 1, 0), <<>>))

\* the mappings of 0, 1, 2 and 3 entries whose first key is the variant V
VariantMaps == {"dvempty", "dvone", "dvmap", "dvmap3"}

\* C13 (as amended): deserialize_enum at a mapping of n entries, the first (if
\* any) being V: 16, for enum E { V(usize) }: with one entry the key names the
\* variant and the value is its payload; with two or more the payload is
\* decoded, the rest is skipped and the call fails with "invalid length n,
\* expected map containing 1 entry"; with none it fails with "invalid type:
\* map, expected variant of enum", not with an invalid length.
C13_VariantMap ==
    \A i \in 1..Len(desers) :
        \A d \in VariantMaps :
            (Decodes(i, d) /\ Returned(i) /\ target = "E") =>
                LET n == TrueLength(Documents[d].events, 1)
                IN  desers[i].res =
                        CASE n = 1 ->
                                Ok(Value("enum", <<<<"V">>, Value("u64", Num(FALSE, <<1, 6>>))>>))
                          [] n = 0 ->
                                Err(message("invalid type", Visit("map", <<>>),
                                            "variant of enum"))
                          [] OTHER ->
                                Err(message("invalid length", n,
                                            [text |-> <<"map containing 1 entry">>,
                                             n |-> 1]))

\* C13 witness: the mapping without entries has failed with an invalid type
C13_Witness ==
    /\ Decodes(1, "dvempty") /\ Returned(1) /\ target = "E"
    /\ ~desers[1].res.ok
    /\ desers[1].res.err.what = "invalid type"

\* C13 as stated: with zero entries, as with two or more, the call fails with
\* an invalid-length error that reports the true entry count
C13_AsStated ==
    \A i \in 1..Len(desers) :
        \A d \in VariantMaps :
            (Decodes(i, d) /\ Returned(i) /\ target = "E") =>
                LET n == TrueLength(Documents[d].events, 1)
                IN  IF n = 1 THEN desers[i].res.ok
                    ELSE /\ ~desers[i].res.ok
                         /\ desers[i].res.err.kind = "Message"
                         /\ desers[i].res.err.what = "invalid length"
                         /\ desers[i].res.err.unexp = n

\* "invalid type: sequence, expected string or singleton map"
NotAVariant == message("invalid type", Visit("seq", <<>>), "string or singleton map")

\* deserialize_enum is called with the cursor at a SequenceStart event
EnumAtSequence ==
    /\ task # 0 /\ ctl.t = "call" /\ ctl.fn = "deserialize" /\ Len(stack) < MaxStack
    /\ Shapes[ctl.shape].k = "enum"
    /\ pos_of(ctl.arg) < Len(Document.events)
    /\ Document.events[pos_of(ctl.arg) + 1].type = "SequenceStart"

\* C14: deserialize_enum at a SequenceStart event returns, in that one step
\* and with nothing else changed, "invalid type: sequence, expected string or
\* singleton map" at the sequence's mark and the cursor's path, whatever the
\* variants; reached through an alias, the sequence is the aliased one, and
\* the error comes out of the decode as it was made.
C14_SequenceNotAVariant ==
    /\ [][EnumAtSequence =>
            /\ ctl' = Return(Err([NotAVariant EXCEPT
                                     !.pos = Pos(MarkAt(pos_of(ctl.arg)), PathOf(ctl.arg))]))
            /\ UNCHANGED <<stack, cells, des, accs, entered>>]_vars
    /\ [](\A i \in 1..Len(desers) :
            /\ (Decodes(i, "daliasseq") /\ Returned(i) /\ target = "SeqE") =>
                  desers[i].res =
                      Err([NotAVariant EXCEPT
                              !.pos = Pos(L0(1), <<Path_Seq(1), Path_Alias>>)])
            /\ (Decodes(i, "dtuple3") /\ Returned(i) /\ target = "E") =>
                  desers[i].res = Err([NotAVariant EXCEPT !.pos = Pos(Mark(4, 1, 0), <<>>)])
            /\ (Decodes(i, "dseqN") /\ Returned(i) /\ target = "Rec") =>
                  desers[i].res = Err([NotAVariant EXCEPT !.pos = Pos(L0(0), <<>>)]))

\* C14 witness: the enum read through the alias of "[&a [0], *a]" has failed
\* at the mark of the aliased sequence
C14_Witness ==
    /\ Decodes(1, "daliasseq") /\ Returned(1) /\ target = "SeqE"
    /\ ~desers[1].res.ok
    /\ desers[1].res.err.what = "invalid type"
    /\ desers[1].res.err.pos.mark = L0(1)

\* C15 as stated: a scalar whose tag "!Name" names a declared variant selects
\* that variant and is its content: "!V 0" decodes as V(0) of enum E
\* { V(usize) }, reading the scalar once, as the payload; "!U" decodes as the
\* unit variant U of enum Rec { V(Box<Rec>), U }.
C15_TaggedVariant ==
    \A i \in 1..Len(desers) :
        /\ (Decodes(i, "dtag") /\ Returned(i) /\ target = "E") =>
              desers[i].res =
                  Ok(Value("enum", <<<<"V">>, Value("u64", Num(FALSE, <<>>))>>))
        /\ (Decodes(i, "dtagunit") /\ Returned(i) /\ target = "Rec") =>
              desers[i].res.ok

\* C16: deserialize_enum at a scalar without a tag that names a variant takes
\* the scalar's text for the variant's name, reading that one event and no
\* other; a unit variant is the value, a text that names no variant is an
\* unknown variant, and a variant with a payload fails with "invalid type:
\* unit variant, expected newtype variant" ("tuple variant", "struct
\* variant").
C16_UnitVariantByName ==
    [][\A i \in 1..Len(desers) :
          (/\ task = i /\ DeReturns(i) /\ target = "E4"
           /\ doc \in {"dvU", "dvN", "dvT", "dvW", "dstr"}) =>
              /\ cells = <<1>>
              /\ desers'[i].res =
                    CASE doc = "dvU" -> Ok(Value("enum", <<<<"U">>>>))
                      [] doc = "dvN" ->
                            Err(message("invalid type", Visit("unit variant", <<>>),
                                        "newtype variant"))
                      [] doc = "dvT" ->
                            Err(message("invalid type", Visit("unit variant", <<>>),
                                        "tuple variant"))
                      [] doc = "dvW" ->
                            Err(message("invalid type", Visit("unit variant", <<>>),
                                        "struct variant"))
                      [] doc = "dstr" ->
                            Err(fix_mark(message("unknown variant",
                                                 Visit("str", <<"s", "t", "r">>),
                                                 "variant identifier"),
                                         Mark(4, 1, 0), <<>>))]_vars

\* C16 witness: "T", the name of a tuple variant, has failed as a unit variant
C16_Witness ==
    /\ Decodes(1, "dvT") /\ Returned(1) /\ target = "E4"
    /\ desers[1].res =
          Err(message("invalid type", Visit("unit variant", <<>>), "tuple variant"))

\* C17 as stated: a node read at an alias gives what the aliased node gives
\* read in its place: in "[&a 0, *a]" the second element is 0 like the first,
\* and in "[&a V, {*a : 0}]" the key *a names the variant V as the scalar V
\* would, so that (String, E) decodes to ("V", V(0)).
C17_AliasTransparent ==
    \A i \in 1..Len(desers) :
        /\ (Decodes(i, "dalias") /\ Returned(i) /\ target = "Tuple2") =>
              desers[i].res =
                  Ok(Value("tuple", <<Value("u64", Num(FALSE, <<>>)),
                                      Value("u64", Num(FALSE, <<>>))>>))
        /\ (Decodes(i, "daliaskey") /\ Returned(i) /\ target = "StrE") =>
              desers[i].res =
                  Ok(Value("tuple",
                           <<Value("str", <<"V">>),
                             Value("enum", <<<<"V">>, Value("u64", Num(FALSE, <<>>))>>)>>))

\* a failure is handed from one frame to the frame that called it
Propagates == ctl.t = "ret" /\ ~ctl.res.ok /\ ctl'.t = "ret" /\ ~ctl'.res.ok

\* C18: an error's location is assigned at most once.  In every step that
\* hands a failure to the calling frame, an error that is not a Message, or a
\* Message that already has a location, is passed on unchanged, and a Message
\* without a location is passed on unchanged or with a location added and
\* nothing else changed; so the decode of test_incorrect_nested_type reports
\* the mark and the path of the innermost frame, the scalar "fase" at b[0].C.d.
C18_AssignedOnce ==
    /\ [][Propagates =>
            LET e == ctl.res.err
                f == ctl'.res.err
            IN  IF e.kind = "Message" /\ ~e.pos.some
                THEN \/ f = e
                     \/ /\ f.kind = "Message"
                        /\ f.pos.some
                        /\ f = [e EXCEPT !.pos = f.pos]
                ELSE f = e]_vars
    /\ [](\A i \in 1..Len(desers) :
            (Decodes(i, "dnested") /\ Returned(i) /\ target = "A") =>
                desers[i].res =
                    Err(fix_mark(message("invalid type",
                                         Visit("str", <<"f", "a", "s", "e">>),
                                         "a boolean"),
                                 Mark(19, 2, 9),
                                 <<<<"Map", <<"b">>>>, <<"Seq", 0>>,
                                   <<"Map", <<"C">>>>, <<"Map", <<"d">>>>>>)))

\* C18 witness: the error stamped at the scalar "fase" is passing through the
\* frame of an enclosing container, whose own mark and path differ from it
C18_Witness ==
    /\ doc = "dnested" /\ target = "A"
    /\ ctl.t = "ret" /\ ~ctl.res.ok
    /\ ctl.res.err.kind = "Message" /\ ctl.res.err.pos.some
    /\ ctl.res.err.pos.mark = Mark(19, 2, 9)
    /\ stack # <<>> /\ Last(stack).k = "visit_sequence"
    /\ MarkAt(Last(stack).at) = Mark(5, 1, 2)

\* the operations that return their result as it comes, without fix_mark
Unstamping == {"deserialize_enum", "deserialize_option", "deserialize_newtype_struct"}
\* a Message error that has no location
Unlocated(res) == ~res.ok /\ res.err.kind = "Message" /\ ~res.err.pos.some
\* Deserializer i has returned this Message error, stamped or not
Reports(i, d, shape, err) ==
    (Decodes(i, d) /\ Returned(i) /\ target = shape) => desers[i].res = Err(err)

Shown(i) == desers[i].called /\ task # i /\ desers[i].text.some
\* the text of the error Deserializer i returned for document d as shape
ShownAs(i, d, shape, text) ==
    (Decodes(i, d) /\ target = shape /\ Shown(i)) => desers[i].text.v = text

\* C20: the text of a Message error is its message alone when it has no
\* location, "<message> at <mark>" when the path of its location is the root
\* path ".", and "<path>: <message> at <mark>" otherwise; the text of a Shared
\* error is the text of the error it wraps.  So test_incorrect_type reads
\* "<message> at line 2 column 1", test_incorrect_nested_type reads
\* "b[0].C.d: <message> at line 3 column 10", test_variant_map_wrong_size reads
\* the message alone and the Shared error of test_unknown_anchor reads "unknown
\* anchor at line 2 column 1".
C20_ErrorText ==
    \A i \in 1..Len(desers) :
        /\ Shown(i) =>
              LET e == desers[i].res.err
                  text == desers[i].text.v
              IN  /\ (e.kind = "Message" /\ ~e.pos.some) => text = <<msg_of(e)>>
                  /\ (e.kind = "Message" /\ e.pos.some) =>
                        LET at == <<msg_of(e), " at ">> \o mark_text(e.pos.mark)
                            path == path_to_string(e.pos.path)
                        IN  text = IF path = <<".">> THEN at ELSE path \o <<": ">> \o at
                  /\ e.kind = "Shared" =>
                        /\ e.inner.kind # "Shared"
                        /\ text = display(e.inner)
        /\ ShownAs(i, "dstr", "i16",
                   <<[what |-> "invalid type", unexp |-> Visit("str", <<"s", "t", "r">>),
                      exp |-> "i16"],
                     " at ", "line ", 2, " column ", 1>>)
        /\ ShownAs(i, "dnested", "A",
                   <<"b", "[", 0, "]", ".", "C", ".", "d", ": ",
                     [what |-> "invalid type",
                      unexp |-> Visit("str", <<"f", "a", "s", "e">>),
                      exp |-> "a boolean"],
                     " at ", "line ", 3, " column ", 10>>)
        /\ ShownAs(i, "dvmap", "E",
                   <<[what |-> "invalid length", unexp |-> 2,
                      exp |-> [text |-> <<"map containing 1 entry">>, n |-> 1]]>>)
        /\ (Shown(i) /\ desers[i].res.err = shared(unknown_anchor(Mark(4, 1, 0)))) =>
              desers[i].text.v = <<"unknown anchor at ", "line ", 2, " column ", 1>>

\* C20 witness: the text of test_incorrect_nested_type's error has been taken,
\* an error with a location whose path is not the root
C20_Witness ==
    /\ Decodes(1, "dnested") /\ target = "A" /\ Shown(1)
    /\ desers[1].res.err.kind = "Message"
    /\ desers[1].res.err.pos.some
    /\ path_to_string(desers[1].res.err.pos.path) # <<".">>

\* the frame of the container that the access a walks
ContainerFrame(a) ==
    stack[Max({j \in 1..Len(stack) :
                 /\ stack[j].k \in {"visit_sequence", "visit_mapping",
                                    "end_sequence", "end_mapping"}
                 /\ stack[j].acc = a})]
\* the segment a child cursor is claimed to add to its parent's path: the
\* count of the elements before it, the text of the scalar key before it (or
\* unknown), the name of the variant, or alias
ClaimedSegment ==
    CASE ctl.t = "call" /\ ctl.fn = "next_element" ->
            LET s == ContainerFrame(ctl.arg).at + 1
                at == pos_of(accs[ctl.arg].de)
            IN  <<"Seq", Cardinality({j \in (s + 1)..at :
                                         /\ Opened(Document.events, s, j - 1) = 1
                                         /\ Document.events[j].type
                                                \notin {"SequenceEnd", "MappingEnd"}})>>
      [] ctl.t = "call" /\ ctl.fn = "next_value" ->
            LET key == Document.events[pos_of(accs[ctl.arg].de)]
            IN  IF key.type = "Scalar" THEN <<"Map", key.value>> ELSE <<"Unknown">>
      [] ctl.t = "ret" ->
            LET a == Last(stack).access
            IN  <<"Map", IF a.tag.some THEN a.tag.v
                         ELSE Document.events[pos_of(a.de)].value>>
      [] OTHER -> <<"Alias">>
\* the cursor that makes the child
Parent ==
    CASE ctl.t = "call" /\ ctl.fn \in {"next_element", "next_value"} -> accs[ctl.arg].de
      [] ctl.t = "ret" -> Last(stack).access.de
      [] OTHER -> ctl.arg

\* C21: a child cursor is made by the cursor in use and its path is the
\* parent's path and one segment more: the zero-based count of the elements
\* before it for an element of a sequence (also while the rest is skipped),
\* the key's text for the value of a scalar key and unknown for the value of
\* any other key, the variant's name for the payload of an enum, alias for an
\* alias jump; a map key is read by the parent cursor itself.  So the scalar
\* "fase" of test_incorrect_nested_type is read at the path b[0].C.d.
C21_ChildPath ==
    /\ [][/\ (des # <<>> /\ Len(des') = Len(des) + 1) =>
                /\ Front(des') = des
                /\ Parent = Len(des)
                /\ Last(des').seg = ClaimedSegment
                /\ ctl'.arg = Len(des')
          /\ (ctl.t = "call" /\ ctl.fn = "next_key" /\ ctl'.t = "call") =>
                /\ des' = des
                /\ ctl'.arg = accs[ctl.arg].de]_vars
    /\ [](\A i \in 1..Len(desers) :
            (Decodes(i, "dnested") /\ Shown(i) /\ target = "A") =>
                /\ desers[i].res.err.pos.path =
                       <<<<"Map", <<"b">>>>, <<"Seq", 0>>, <<"Map", <<"C">>>>,
                         <<"Map", <<"d">>>>>>
                /\ path_to_string(desers[i].res.err.pos.path) =
                       <<"b", "[", 0, "]", ".", "C", ".", "d">>)

\* C21 witness: the second element of a sequence is being read through an
\* alias, at the path [1] and then alias
C21_Witness ==
    /\ task # 0 /\ ctl.t = "call" /\ ctl.fn = "deserialize"
    /\ PathOf(ctl.arg) = <<<<"Seq", 1>>, <<"Alias">>>>

---------------------------------------------------------------------------
(* Scalar typing on its own: deserialize_any positioned on one scalar      *)
(* event, for every scalar of a bounded set of texts, styles and tags.     *)

\* the longest text that is enumerated exhaustively over Alphabet
MaxText == 3
Alphabet == {"-", "+", "0", "7", "x", ".", "e"}
ShortTexts == UNION {[1..k -> Alphabet] : k \in 0..MaxText}

LongTexts ==
    {<<"~">>, <<"n","u","l","l">>, <<"N","u","l","l">>, <<"N","U","L","L">>,
     <<"t","r","u","e">>, <<"f","a","l","s","e">>, <<"T","r","u","e">>,
     <<"F","A","L","S","E">>, <<"y","e","s">>, <<"s","t","r">>,
     <<"1">>, <<"1",".","5">>, <<"1","e","5">>, <<"1","e","9","9","9">>,
     <<"-","1","e","9","9","9">>, <<"1","e","-","9","9","9">>,
     <<"0","0","7">>, <<"-","0","0","7">>, <<"+","0","0","7">>, <<"0","0">>,
     <<"0","0","7",".","5">>, <<"0","7","e","0">>,
     <<"-","0","x","0">>, <<"-","0","x","7">>, <<"-","0","o","7">>, <<"-","0","b","1">>,
     <<"0","x","F","f">>, <<"0","o","1","7">>, <<"0","o","8">>, <<"0","b","1","0">>,
     <<"0","b","2">>, <<"0","X","7">>, <<"+","0","x","7">>, <<"0","x","-","7">>,
     <<"0","x","+","7">>, <<"-","0","x","-","7">>, <<"+","-","0","x","7">>,
     <<"1","8","4","4","6","7","4","4","0","7","3","7","0","9","5","5","1","6","1","5">>,
     <<"1","8","4","4","6","7","4","4","0","7","3","7","0","9","5","5","1","6","1","6">>,
     <<"+","1","8","4","4","6","7","4","4","0","7","3","7","0","9","5","5","1","6","1","6">>,
     <<"-","9","2","2","3","3","7","2","0","3","6","8","5","4","7","7","5","8","0","8">>,
     <<"-","9","2","2","3","3","7","2","0","3","6","8","5","4","7","7","5","8","0","9">>,
     <<"3","4","0","2","8","2","3","6","6","9","2","0","9","3","8","4","6","3","4","6",
       "3","3","7","4","6","0","7","4","3","1","7","6","8","2","1","1","4","5","5">>,
     <<"3","4","0","2","8","2","3","6","6","9","2","0","9","3","8","4","6","3","4","6",
       "3","3","7","4","6","0","7","4","3","1","7","6","8","2","1","1","4","5","6">>,
     <<"-","1","7","0","1","4","1","1","8","3","4","6","0","4","6","9","2","3","1","7",
       "3","1","6","8","7","3","0","3","7","1","5","8","8","4","1","0","5","7","2","8">>,
     <<"-","1","7","0","1","4","1","1","8","3","4","6","0","4","6","9","2","3","1","7",
       "3","1","6","8","7","3","0","3","7","1","5","8","8","4","1","0","5","7","2","9">>,
     <<"0","x","F","F","F","F","F","F","F","F","F","F","F","F","F","F","F","F">>,
     <<"0","x","1","0","0","0","0","0","0","0","0","0","0","0","0","0","0","0","0">>,
     <<"-","0","x","8","0","0","0","0","0","0","0","0","0","0","0","0","0","0","0">>,
     <<"-","0","x","8","0","0","0","0","0","0","0","0","0","0","0","0","0","0","1">>,
     <<".","i","n","f">>, <<".","I","n","f">>, <<".","I","N","F">>,
     <<".","i","N","f">>, <<".","i","n","F">>, <<".","I","N","f">>,
     <<"+",".","i","n","f">>, <<"+",".","I","N","F">>, <<"+",".","i","N","F">>,
     <<"-",".","i","n","f">>, <<"-",".","I","n","f">>, <<"-",".","I","N","F">>,
     <<"-",".","i","N","f">>, <<"+","-",".","i","n","f">>,
     <<".","n","a","n">>, <<".","N","a","N">>, <<".","N","A","N">>,
     <<".","N","a","n">>, <<".","n","A","n">>, <<".","n","a","N">>,
     <<"+",".","n","a","n">>, <<"-",".","n","a","n">>,
     <<"i","n","f">>, <<"-","i","n","f">>, <<"+","i","n","f">>, <<"I","N","F">>,
     <<"n","a","n">>, <<"N","a","N">>, <<"i","n","f","i","n","i","t","y">>}

ScalarStyles == {"Plain", "SingleQuoted", "DoubleQuoted", "Literal", "Folded"}
TagCustom == <<"!", <<"x">>>>
\* the position of the scalar in its input
ScalarMark == Mark(4, 1, 0)

UntaggedInputs ==
    {Event("Scalar", 0, NoTag, style, text, ScalarMark) :
        style \in ScalarStyles, text \in ShortTexts \cup LongTexts}
TaggedInputs ==
    {Event("Scalar", 0, tag, style, text, ScalarMark) :
        tag \in {TagBOOL, TagINT, TagFLOAT, TagNULL, TagCustom},
        style \in {"Plain", "DoubleQuoted"},
        text \in ShortTexts \cup LongTexts}
ScalarInputs == UntaggedInputs \cup TaggedInputs

\* the typed operations that are applied to the tagged scalars
TypedOps ==
    {"deserialize_unit", "deserialize_bool", "deserialize_i64", "deserialize_u64",
     "deserialize_str"}

\* the typed numeric operations, which are applied to the untagged scalars
NumericOps ==
    {"deserialize_i64", "deserialize_u64", "deserialize_i128", "deserialize_u128",
     "deserialize_f64"}

InitScalar ==
    /\ desers = <<>>
    /\ target = "Ignored"
    /\ usage = "single"
    /\ task = 0
    /\ doc = "d0"
    /\ \/ \E scalar \in ScalarInputs : ctl = Call("deserialize_any", "Value", scalar)
       \/ \E scalar \in TaggedInputs, op \in TypedOps : ctl = Call(op, "typed", scalar)
       \/ \E scalar \in UntaggedInputs, op \in NumericOps \cup {"deserialize_bool"} :
             ctl = Call(op, "typed", scalar)
       \/ \E scalar \in ScalarInputs : ctl = Call("deserialize_option", "OptBool", scalar)
    /\ stack = <<>>
    /\ cells = <<>>
    /\ des = <<>>
    /\ accs = <<>>
    /\ entered = <<>>

\* deserialize_any on a scalar event at the root, with a visitor that takes
\* every visit_* call (serde's Value visitor): the call it receives, or the
\* error with the scalar's mark
deserialize_any_scalar ==
    /\ ctl.t = "call"
    /\ ctl.fn = "deserialize_any"
    /\ ctl' = [t |-> "ret", fn |-> ctl.fn, arg |-> ctl.arg,
               res |-> map_err_fix_mark(scalar_visit(ctl.arg), ctl.arg.mark, <<>>)]
    /\ UNCHANGED <<desers, task, doc, stack, cells, des, accs, entered, target, usage>>

\* what a typed operation returns on a scalar event at the root, before its
\* map_err: T = (), bool, i64, u64 or String
typed_operation(op, scalar) ==
    CASE op = "deserialize_unit" -> visit_scalar(Types["unit"], scalar)
      [] op = "deserialize_bool" ->
            typed_scalar(Types["bool"], scalar, parse_bool(scalar.value), "bool")
      [] op = "deserialize_i64" ->
            typed_scalar(Types["i64"], scalar, parse_signed_int(scalar.value, "i64"), "i64")
      [] op = "deserialize_u64" ->
            typed_scalar(Types["usize"], scalar, parse_unsigned_int(scalar.value, "u64"),
                         "u64")
      [] op = "deserialize_i128" ->
            typed_scalar(Types["i128"], scalar, parse_signed_int(scalar.value, "i128"),
                         "i128")
      [] op = "deserialize_u128" ->
            typed_scalar(Types["u128"], scalar, parse_unsigned_int(scalar.value, "u128"),
                         "u128")
      [] op = "deserialize_f64" ->
            typed_scalar(Types["f64"], scalar, parse_f64(scalar.value), "f64")
      [] op = "deserialize_str" -> visit(Types["String"], Visit("str", scalar.value))

\* deserialize_unit (deserialize_scalar), _bool, _i64, _u64, _i128, _u128, _f64 and _str on a
\* scalar event at the root, each ending in map_err fix_mark
deserialize_typed_scalar ==
    /\ ctl.t = "call"
    /\ ctl.fn \in TypedOps \cup NumericOps
    /\ ctl' = [t |-> "ret", fn |-> ctl.fn, arg |-> ctl.arg,
               res |-> map_err_fix_mark(typed_operation(ctl.fn, ctl.arg),
                                        ctl.arg.mark, <<>>)]
    /\ UNCHANGED <<desers, task, doc, stack, cells, des, accs, entered, target, usage>>

\* deserialize_option for Option<bool> on a scalar event at the root: its own
\* `!!null` error is returned as it is, visit_some(self) runs deserialize_bool
deserialize_option_scalar ==
    /\ ctl.t = "call"
    /\ ctl.fn = "deserialize_option"
    /\ ctl' = [t |-> "ret", fn |-> ctl.fn, arg |-> ctl.arg,
               res |-> IF ctl.arg.style = "Plain" /\ ctl.arg.tag = TagNULL
                          /\ ~parse_null(ctl.arg.value)
                       THEN Err(message("invalid value", Visit("str", ctl.arg.value),
                                        "null"))
                       ELSE IF ScalarIsSome(ctl.arg)
                       THEN map_err_fix_mark(typed_operation("deserialize_bool", ctl.arg),
                                             ctl.arg.mark, <<>>)
                       ELSE Ok(Value("none", <<>>))]
    /\ UNCHANGED <<desers, task, doc, stack, cells, des, accs, entered, target, usage>>

NextScalar ==
    \/ deserialize_any_scalar
    \/ deserialize_typed_scalar
    \/ deserialize_option_scalar

SpecScalar == InitScalar /\ [][NextScalar]_vars

\* the scalar a finished call was made on, and what came back
Typed == ctl.t = "ret" /\ ctl.fn = "deserialize_any"
PlainUntagged == ctl.arg.tag = NoTag /\ ctl.arg.style = "Plain"
Delivered(method) == ctl.res.ok /\ ctl.res.val.visit = method
DeliveredStr == Delivered("str") /\ ctl.res.val.v = ctl.arg.value

\* the integer a text denotes under the integer grammar: an optional sign,
\* then 0x / 0o / 0b and digits of that radix, or decimal digits without a
\* superfluous leading zero; `neg` is whether a '-' is written
IntBody(neg, body, radix, digits) ==
    IF /\ digits # <<>>
       /\ \A i \in 1..Len(digits) : DigitOf(digits[i]) < radix
       /\ (radix = 10 => ~(Len(digits) > 1 /\ digits[1] = "0"))
    THEN Some([neg |-> neg, mag |-> MagOf(digits, Len(digits), radix)])
    ELSE None
IntUnsigned(neg, body) ==
    CASE starts_with(body, <<"0", "x">>) -> IntBody(neg, body, 16, Tail2(body, 2))
      [] starts_with(body, <<"0", "o">>) -> IntBody(neg, body, 8, Tail2(body, 2))
      [] starts_with(body, <<"0", "b">>) -> IntBody(neg, body, 2, Tail2(body, 2))
      [] OTHER -> IntBody(neg, body, 10, body)
IntOf(text) ==
    IntUnsigned(starts_with(text, <<"-">>),
                IF starts_with_sign(text) THEN Tail2(text, 1) ELSE text)
\* the width an integer is delivered in: a written '-' selects the signed widths
WidthOf(n) ==
    IF ~n.neg
    THEN IF MagLeq(n.mag, U64Max) THEN "u64"
         ELSE IF MagLeq(n.mag, U128Max) THEN "u128" ELSE "none"
    ELSE IF MagLeq(n.mag, I64MinMag) THEN "i64"
         ELSE IF MagLeq(n.mag, I128MinMag) THEN "i128" ELSE "none"
IsInteger(text) == IntOf(text).some /\ WidthOf(IntOf(text).v) # "none"
IntMethods == {"u64", "i64", "u128", "i128"}
\* the float grammar, less the digit strings with a superfluous leading zero
IsFloat(text) == parse_f64(text).some /\ ~digits_but_not_number(text)

\* C22: the any-shape operation delivers an untagged scalar of quoted or block
\* style as a string with its text unchanged, and a plain untagged scalar as
\* the first matching of: null (empty, '~', 'null'), boolean ('true', 'false'),
\* integer, float, and otherwise the literal string.
C22_AutomaticTyping ==
    (Typed /\ ctl.arg.tag = NoTag) =>
        LET text == ctl.arg.value
        IN  IF ctl.arg.style # "Plain" THEN DeliveredStr
            ELSE IF text \in {<<>>, <<"~">>, <<"n","u","l","l">>}
            THEN ctl.res = Ok(Visit("unit", <<>>))
            ELSE IF text \in {<<"t","r","u","e">>, <<"f","a","l","s","e">>}
            THEN ctl.res = Ok(Visit("bool", text = <<"t","r","u","e">>))
            ELSE IF IsInteger(text)
            THEN ctl.res.ok /\ ctl.res.val.visit \in IntMethods
            ELSE IF IsFloat(text) THEN Delivered("f64")
            ELSE DeliveredStr

\* C22 witness: a double-quoted 'true' has been delivered as the string 'true'
C22_Witness ==
    /\ Typed
    /\ ctl.arg.tag = NoTag
    /\ ctl.arg.style = "DoubleQuoted"
    /\ ctl.arg.value = <<"t","r","u","e">>
    /\ DeliveredStr

\* an optional sign, a '0' and one or more further decimal digits
ZeroLed(body) ==
    /\ Len(body) >= 2
    /\ body[1] = "0"
    /\ \A i \in 1..Len(body) : body[i] \in {"0","1","2","3","4","5","6","7","8","9"}
SignedZeroLed(text) ==
    ZeroLed(IF Len(text) >= 1 /\ text[1] \in {"+", "-"} THEN Tail2(text, 1) ELSE text)

\* C23: a plain untagged scalar made of an optional sign, a '0' and one or
\* more further decimal digits ('007', '-007', '00') is delivered by automatic
\* typing as a string with that text, never as an integer or a float.
C23_LeadingZeroIsString ==
    (Typed /\ PlainUntagged /\ SignedZeroLed(ctl.arg.value)) => DeliveredStr

\* C23 witness: the plain scalar '-007' has been delivered as a string
C23_Witness ==
    /\ Typed
    /\ PlainUntagged
    /\ ctl.arg.value = <<"-","0","0","7">>
    /\ DeliveredStr

\* the scalars the float grammar is applied to: plain untagged ones and
\* those tagged !!float
FloatTyped == Typed /\ (PlainUntagged \/ ctl.arg.tag = TagFLOAT)
Unpositive(text) == IF Len(text) >= 1 /\ text[1] = "+" THEN Tail2(text, 1) ELSE text
DeliveredFloat(class) == Delivered("f64") /\ ctl.res.val.v.class = class
InfForms == {<<".","i","n","f">>, <<".","I","n","f">>, <<".","I","N","F">>}
NanForms == {<<".","n","a","n">>, <<".","N","a","N">>, <<".","N","A","N">>}
AnyCaseInf(text) == EqualsIgnoreCase(text, <<".","i","n","f">>, <<".","I","N","F">>)
AnyCaseNan(text) == EqualsIgnoreCase(text, <<".","n","a","n">>, <<".","N","A","N">>)

\* C24 (amended): '.inf', '.Inf' and '.INF' (optionally preceded by '+')
\* resolve to +infinity, '-.inf', '-.Inf' and '-.INF' to -infinity, and
\* '.nan', '.NaN' and '.NAN' to NaN; these words in any other letter case are
\* not floats; any other text is a float only if it parses as a finite
\* decimal number, so 'inf', 'nan' and '1e999' are not floats.
C24_FloatSpecials ==
    FloatTyped =>
        LET text == ctl.arg.value
        IN  /\ Unpositive(text) \in InfForms => DeliveredFloat("inf")
            /\ (Len(text) >= 1 /\ text[1] = "-" /\ Tail2(text, 1) \in InfForms)
                   => DeliveredFloat("-inf")
            /\ text \in NanForms => DeliveredFloat("nan")
            /\ (AnyCaseInf(Unpositive(text)) /\ Unpositive(text) \notin InfForms)
                   => ~Delivered("f64")
            /\ (Len(text) >= 1 /\ text[1] = "-" /\ AnyCaseInf(Tail2(text, 1))
                   /\ Tail2(text, 1) \notin InfForms) => ~Delivered("f64")
            /\ (AnyCaseNan(text) /\ text \notin NanForms) => ~Delivered("f64")
            /\ text \in {<<"i","n","f">>, <<"-","i","n","f">>, <<"+","i","n","f">>,
                         <<"I","N","F">>, <<"n","a","n">>, <<"N","a","N">>,
                         <<"i","n","f","i","n","i","t","y">>,
                         <<"1","e","9","9","9">>, <<"-","1","e","9","9","9">>}
                   => ~Delivered("f64")
            /\ DeliveredFloat("finite") =>
                   /\ parse_f64_std(Unpositive(text)) = "finite"
                   /\ ctl.res.val.v.text = Unpositive(text)

\* C24 witness: the plain scalar '+.INF' has been delivered as +infinity
C24_Witness ==
    /\ Typed
    /\ PlainUntagged
    /\ ctl.arg.value = <<"+",".","I","N","F">>
    /\ DeliveredFloat("inf")

\* C24 as stated: '.inf' (optionally preceded by '+'), '-.inf' and '.nan'
\* resolve to the float specials regardless of the letter case in which
\* 'inf' / 'nan' is written.
C24_AsStated ==
    FloatTyped =>
        LET text == ctl.arg.value
        IN  /\ AnyCaseInf(Unpositive(text)) => DeliveredFloat("inf")
            /\ (Len(text) >= 1 /\ text[1] = "-" /\ AnyCaseInf(Tail2(text, 1)))
                   => DeliveredFloat("-inf")
            /\ AnyCaseNan(text) => DeliveredFloat("nan")

\* a finished operation on a scalar that carries a core tag
Ended(op) == ctl.t = "ret" /\ ctl.fn = op
CoreTags == {TagBOOL, TagINT, TagFLOAT, TagNULL}
CoreTagged == ctl.t = "ret" /\ ctl.arg.tag \in CoreTags
\* the text parses under the type the tag forces
ParsesUnder(tag, text) ==
    CASE tag = TagBOOL -> text \in {<<"t","r","u","e">>, <<"f","a","l","s","e">>}
      [] tag = TagINT -> IsInteger(text)
      [] tag = TagFLOAT -> parse_f64(text).some
      [] tag = TagNULL -> text \in {<<"~">>, <<"n","u","l","l">>}
TagMethods(tag) ==
    CASE tag = TagBOOL -> {"bool"}
      [] tag = TagINT -> IntMethods
      [] tag = TagFLOAT -> {"f64"}
      [] tag = TagNULL -> {"unit"}
TagKind(tag) ==
    CASE tag = TagBOOL -> "a boolean"
      [] tag = TagINT -> "an integer"
      [] tag = TagFLOAT -> "a float"
      [] tag = TagNULL -> "null"
\* invalid value: string "<text>", expected <kind>, with the given location
InvalidValue(text, kind, pos) ==
    Err([message("invalid value", Visit("str", text), kind) EXCEPT !.pos = pos])
AtScalar == Pos(ScalarMark, <<>>)
InvalidTypeAtScalar ==
    /\ ~ctl.res.ok
    /\ ctl.res.err.kind = "Message"
    /\ ctl.res.err.what = "invalid type"
    /\ ctl.res.err.pos = AtScalar
\* the text parses under the type a typed operation asks for
InI64(n) == IF n.neg THEN MagLeq(n.mag, I64MinMag) ELSE MagLeq(n.mag, I64Max)
Requested(op, text) ==
    CASE op = "deserialize_bool" ->
            text \in {<<"t","r","u","e">>, <<"f","a","l","s","e">>}
      [] op = "deserialize_i64" -> IntOf(text).some /\ InI64(IntOf(text).v)
      [] op = "deserialize_u64" ->
            IntOf(text).some /\ ~IntOf(text).v.neg /\ MagLeq(IntOf(text).v.mag, U64Max)
\* what the bool, i64 and u64 operations do with a core-tagged scalar
TypedOutcome(op, scalar) ==
    IF scalar.style = "Plain" /\ Requested(op, scalar.value) THEN ctl.res.ok
    ELSE IF ParsesUnder(scalar.tag, scalar.value) THEN InvalidTypeAtScalar
    ELSE ctl.res = InvalidValue(scalar.value, TagKind(scalar.tag), AtScalar)

WidthByValue(n) ==
    IF ~n.neg \/ n.mag = <<>>
    THEN IF MagLeq(n.mag, U64Max) THEN "u64"
         ELSE IF MagLeq(n.mag, U128Max) THEN "u128" ELSE "none"
    ELSE IF MagLeq(n.mag, I64MinMag) THEN "i64"
         ELSE IF MagLeq(n.mag, I128MinMag) THEN "i128" ELSE "none"
DeliveredInt(width, n) == ctl.res = Ok(Visit(width, Num(n.neg, n.mag)))
NoInteger == ~(ctl.res.ok /\ ctl.res.val.visit \in IntMethods)

\* C26 (amended): in automatic typing one optional leading '+' is accepted; a
\* '+' or '-' right after a 0x / 0o / 0b prefix makes the text a non-integer;
\* '-0x..', '-0o..', '-0b..' yield the negated value of the digits; an integer
\* n written without '-' is delivered as u64 if n < 2^64 and otherwise as u128
\* if n < 2^128; one written with '-' is delivered as i64 if -2^63 <= n <= 0
\* (so '-0' is an i64) and otherwise as i128 if -2^127 <= n; text whose
\* value lies outside these ranges is not an integer.
C26_IntegerWidth ==
    (Typed /\ PlainUntagged) =>
        LET n == IntOf(ctl.arg.value)
        IN  IF n.some /\ WidthOf(n.v) # "none"
            THEN DeliveredInt(WidthOf(n.v), n.v)
            ELSE NoInteger

\* C26 witness: the plain scalar '-0x7' has been delivered as the i64 -7
C26_Witness ==
    /\ Typed
    /\ PlainUntagged
    /\ ctl.arg.value = <<"-","0","x","7">>
    /\ ctl.res = Ok(Visit("i64", Num(TRUE, <<7>>)))

\* C26 as stated: an integer n is delivered as u64 if 0 <= n < 2^64,
\* otherwise as i64 if -2^63 <= n < 0, otherwise as u128 or i128.
C26_AsStated ==
    (Typed /\ PlainUntagged) =>
        LET n == IntOf(ctl.arg.value)
        IN  (n.some /\ WidthByValue(n.v) # "none")
                => DeliveredInt(WidthByValue(n.v), n.v)

\* the events of the current document at positions a..b that open, and that
\* close, a sequence or a mapping
StartsIn(a, b) ==
    {j \in a..b : Document.events[j + 1].type \in {"SequenceStart", "MappingStart"}}
EndsIn(a, b) ==
    {j \in a..b : Document.events[j + 1].type \in {"SequenceEnd", "MappingEnd"}}
\* the position of the End event that closes the container opened at `at`
MatchingEnd(at) ==
    Min({j \in (at + 1)..(Len(Document.events) - 1) :
            Cardinality(StartsIn(at, j)) = Cardinality(EndsIn(at, j))})
\* a span capture of the item at the position of the top frame returns
SpanReturns ==
    /\ ctl.t = "ret" /\ stack # <<>> /\ Last(stack).k = "visit_spanned"
    /\ ctl'.t = "ret" /\ ctl'.res.ok /\ stack' = Front(stack)
SpanOf(item, span) ==
    /\ item.type = "Scalar" /\ item.style = "Plain" =>
           span.start = item.mark.index /\ span.len = Len(item.value)
    /\ item.type = "SequenceStart" =>
           /\ span.start = item.mark.index
           /\ span.start + span.len =
                  Document.events[MatchingEnd(Last(stack).at) + 1].mark.index + 1
\* the source text of " [1, 22, 333]" and the part of it a span selects
SpanSrc == <<" ", "[", "1", ",", " ", "2", "2", ",", " ", "3", "3", "3", "]">>
Selected(span) == SubSeq(SpanSrc, span.start + 1, span.start + span.len)

\* C27: span capture of a plain scalar reports start = the offset of the
\* scalar's mark and len = the length of its text; span capture of a sequence
\* reports start = the offset of its SequenceStart mark and start + len = the
\* offset of its own matching SequenceEnd mark + 1, nested sequences being
\* skipped.  For " [1, 22, 333]" the element spans select "1", "22", "333"
\* and the sequence span selects "[1, 22, 333]".
C27_Spans ==
    /\ [][SpanReturns =>
             SpanOf(Document.events[Last(stack).at + 1], ctl'.res.val.v)]_vars
    /\ [](\A i \in 1..Len(desers) :
             (Returned(i) /\ target = "SpVecSpUsize" /\ desers[i].docs = <<"dspan">>) =>
                 /\ desers[i].res.ok
                 /\ Selected(desers[i].res.val.v) =
                        <<"[", "1", ",", " ", "2", "2", ",", " ", "3", "3", "3", "]">>
                 /\ Len(desers[i].res.val.v.value.v) = 3
                 /\ Selected(desers[i].res.val.v.value.v[1].v) = <<"1">>
                 /\ Selected(desers[i].res.val.v.value.v[2].v) = <<"2", "2">>
                 /\ Selected(desers[i].res.val.v.value.v[3].v) = <<"3", "3", "3">>)

\* C27 witness: "[[1], [2]]" has been captured as a span of a sequence of
\* spans of sequences, the outer span being the whole text
C27_Witness ==
    /\ target = "SpVecSpVecUsize"
    /\ \E i \in 1..Len(desers) :
          /\ Returned(i)
          /\ desers[i].res.ok
          /\ desers[i].res.val.v.start = 0
          /\ desers[i].res.val.v.len = 10
          /\ desers[i].res.val.v.value.v[2].v.start = 6
          /\ desers[i].res.val.v.value.v[2].v.len = 3

\* C28: what an engine step may change.  While a task runs, every step that
\* keeps the task is a step of the engine: de, next and to_string wait for
\* task = 0, and the return of de ends the task.
EngineStep ==
    /\ task # 0
    /\ task' = task

\* two Deserializers that own the same Document and have both been decoded
SameDocument(i, j) ==
    /\ desers[i].progress = "Document" /\ desers[j].progress = "Document"
    /\ desers[i].doc = desers[j].doc
    /\ Returned(i) /\ Returned(j)

AtEnd(fn, endtype) ==
    /\ task # 0 /\ Calling(fn)
    /\ pos_of(accs[ctl.arg].de) < Len(Document.events)
    /\ Document.events[pos_of(accs[ctl.arg].de) + 1].type = endtype

\* the container that event s opens has its End event in the document (a
\* document cut short by a syntax error may lack it)
Closed(events, s) == \E j \in (s + 1)..Len(events) : Opened(events, s, j) = 0

\* in this step the position cell c moves past a SequenceEnd or MappingEnd
PassesEnd(c) ==
    /\ c <= Len(cells') /\ cells'[c] > cells[c]
    /\ \E j \in cells[c]..(cells'[c] - 1) :
          Document.events[j + 1].type \in {"SequenceEnd", "MappingEnd"}

\* the step of end_sequence / end_mapping that reads the End event of the
\* container of the top frame through cell c: the drain has just returned
\* None, the frame holds the visitor's value, and the event read is the one
\* that closes the container opened at the frame's position
EndStep(c) ==
    LET f == Last(stack)
    IN  /\ ctl.t = "ret" /\ ctl.res.ok /\ stack # <<>>
        /\ f.k \in {"end_sequence", "end_mapping"}
        /\ f.entry = "key"
        /\ ~ctl.res.val.some
        /\ c = des[accs[f.acc].de].cell
        /\ Closed(Document.events, f.at + 1)
        /\ cells[c] + 1 = EndOf(Document.events, f.at + 1)
        /\ cells'[c] = cells[c] + 1
        /\ stack' = Front(stack)

\* a step of ignore_any's loop that reads the End event of a container the
\* same loop has entered
SkipStep == ctl.t = "loop" /\ ctl.nest # <<>>

\* EnumAccess::variant_seed reads the MappingEnd of an empty mapping where
\* it looks for the variant's key, and fails; no access was made for it
EnumKeyStep == Calling("variant_seed") /\ ctl'.t = "ret" /\ ~ctl'.res.ok /\ ~ctl'.res.halt

\* C29: SeqAccess::next_element called with SequenceEnd next, and
\* MapAccess::next_key called with MappingEnd next, return None and move
\* nothing, however often they are called; the End event of a container
\* handed to a visitor is read by one step only, the step of end_sequence /
\* end_mapping that follows the drain's None, the visitor having returned a
\* value.  The only other steps that read an End event are those of
\* ignore_any, for the containers it skips whole, and the failing read of
\* the key of an enum written as an empty mapping.
C29_EndConsumedOnce ==
    /\ [][(AtEnd("next_element", "SequenceEnd") \/ AtEnd("next_key", "MappingEnd")) =>
            /\ ctl'.t = "ret" /\ ctl'.res.ok /\ ~ctl'.res.val.some
            /\ UNCHANGED <<cells, des, accs, stack>>]_vars
    /\ [][\A c \in 1..Len(cells) :
            (task # 0 /\ task' = task /\ PassesEnd(c)) =>
                (EndStep(c) \/ SkipStep \/ EnumKeyStep)]_vars

\* C29 witness: the Vec visitor of "[0, 0, 0]"-like input stopped at None, and
\* end_sequence asks the same access again with SequenceEnd still next
C29_Witness ==
    /\ AtEnd("next_element", "SequenceEnd")
    /\ stack # <<>> /\ Last(stack).k = "end_sequence"
    /\ Last(stack).value.ty = "seq"
    /\ Last(stack).len = accs[ctl.arg].len /\ Last(stack).len > 0

\* the position one past the last event of the node that starts at `at`
PastNode(at) ==
    IF Document.events[at + 1].type \in {"SequenceStart", "MappingStart"}
    THEN EndOf(Document.events, at + 1)
    ELSE at + 1

\* a shape operation has returned a value to the frame that called it
ReturnedOk == task # 0 /\ ctl.t = "ret" /\ ctl.res.ok

\* C30: a shape operation that returns a value leaves its cursor one past the
\* last event of the node it started at: the operation run by de on the root
\* of the document, the decoding of an element, a key or a value of a
\* container, the operation an alias jumps to (whose caller is left one past
\* the alias) and the value inside a span capture; the shapes decoded are
\* any, typed scalars, option, seq, tuple, map, struct, newtype, enum in its
\* scalar, tagged-scalar and mapping forms, ignored and spanned, with
\* visitors that read all or a prefix of the children.
C30_CursorPastNode ==
    ReturnedOk =>
        IF stack = <<>> THEN cells[1] = PastNode(0)
        ELSE LET f == Last(stack)
             IN  CASE f.k \in {"element", "key", "value"} ->
                        cells[Last(des).cell] = PastNode(f.at)
                   [] f.k = "jump" ->
                        /\ Last(cells) = PastNode(jump(Document, Document.events[f.at + 1].id).v)
                        /\ pos_of(f.de) = f.at + 1
                   [] f.k = "visit_spanned" -> pos_of(f.de) = PastNode(f.at)
                   [] OTHER -> TRUE

\* C30 witness: in "[U, {N: 1}, &a {T: [0, 0]}, *a, !N 1]" decoded as
\* Vec<E4> the enum the alias jumps to has returned T(0, 0): the jumped
\* cursor is one past the MappingEnd of the anchored mapping and the caller
\* is one past the alias
C30_Witness ==
    /\ ReturnedOk /\ target = "VecE4" /\ doc = "denums"
    /\ stack # <<>> /\ Last(stack).k = "jump"
    /\ ctl.res.val.ty = "enum"
    /\ Last(stack).at = 13 /\ pos_of(Last(stack).de) = 14
    /\ Last(cells) = 13

\* the node that starts at `at` has its last event in the document
NodeClosed(at) ==
    Document.events[at + 1].type \in {"SequenceStart", "MappingStart"} =>
        Closed(Document.events, at + 1)

\* the engine is inside the loop of ignore_any
InLoop == task # 0 /\ ctl.t = "loop"

\* the position at which the node being skipped starts: ignore_any is run for
\* the root of the document, or for an element, key or value of a container
SkipStart == IF stack = <<>> THEN 0 ELSE Last(stack).at

\* C31: ignore_any started at the first event of a node reads exactly the
\* events of that node: while it loops, its stack of markers is as deep as
\* the containers opened and not yet closed since the start, and it returns,
\* with an empty stack and the unit of visit_unit, one past the node's last
\* event (the one event of a scalar or alias, the matching End of a
\* container).  Its steps make no cursor (no alias is followed), call no
\* frame and leave every remaining depth as it is, so it never fails with
\* "recursion limit exceeded": sequences nested deeper than the budget are
\* skipped both as the value of an unknown field and as the unread element
\* drained by end_sequence.
C31_IgnoreAny ==
    /\ [](InLoop =>
            /\ stack = <<>> \/ Last(stack).k \in {"element", "key", "value"}
            /\ pos_of(ctl.arg) >= SkipStart
            /\ Len(ctl.nest) = Opened(Document.events, SkipStart + 1, pos_of(ctl.arg))
            /\ pos_of(ctl.arg) > SkipStart => Len(ctl.nest) > 0)
    /\ [][InLoop =>
            /\ UNCHANGED <<des, stack, accs>>
            /\ Len(cells') = Len(cells)
            /\ ctl'.t \in {"loop", "ret"}
            /\ ctl'.t = "ret" =>
                  IF ctl'.res.ok
                  THEN /\ NodeClosed(SkipStart)
                       /\ cells'[des[ctl.arg].cell] = PastNode(SkipStart)
                       /\ ctl'.res = visit(Shapes[ctl.shape], Visit("unit", <<>>))
                  ELSE ctl'.res.err.kind # "RecursionLimitExceeded"]_vars
    /\ [](\A i \in 1..Len(desers) :
            /\ (Returned(i) /\ target = "S" /\ doc = "dskipN") => desers[i].res.ok
            /\ (Returned(i) /\ target = "Take0" /\ doc = "dseqN") =>
                  /\ ~desers[i].res.ok
                  /\ desers[i].res.err.kind = "Message"
                  /\ desers[i].res.err.what = "invalid length")

\* C31 witness: the value of the unknown field y, sequences nested deeper
\* than the budget, has been skipped and the struct has been returned
C31_Witness ==
    /\ Returned(1) /\ target = "S" /\ doc = "dskipN"
    /\ desers[1].res.ok

\* deserialize_any delivers the scalar as null: the visitor gets visit_unit
AnyNull(scalar) == scalar_visit(scalar).ok /\ scalar_visit(scalar).val.visit = "unit"

\* deserialize_option on the scalar has returned; None is visit_none's value
OptionEnded == ctl.t = "ret" /\ ctl.fn = "deserialize_option"
IsNone == ctl.res.ok /\ "ty" \in DOMAIN ctl.res.val /\ ctl.res.val.ty = "none"

\* C32 as stated: deserialize_option gives None exactly for the scalars that
\* deserialize_any delivers as null, and for every scalar that deserialize_any
\* delivers as something else it calls visit_some on the node (here
\* Option<bool>: deserialize_bool on the same scalar), whatever the style, the
\* tag and the text.
C32_OptionAgreesWithAny ==
    OptionEnded =>
        /\ IsNone <=> AnyNull(ctl.arg)
        /\ (scalar_visit(ctl.arg).ok /\ ~AnyNull(ctl.arg)) =>
              ctl.res = map_err_fix_mark(typed_operation("deserialize_bool", ctl.arg),
                                         ctl.arg.mark, <<>>)

\* C32, the scalars on which the two disagree: a scalar written in quotes
\* with the tag !!null and the text of a null
C32_QuotedNull ==
    OptionEnded =>
        ((IsNone <=> AnyNull(ctl.arg))
            \/ (/\ ctl.arg.style # "Plain" /\ ctl.arg.tag = TagNULL
                /\ parse_null(ctl.arg.value) /\ AnyNull(ctl.arg) /\ ~IsNone))

MaxCalls == 11

SpanDocuments == {"dspan", "dspannest", "dbasic"}

InitSpanned ==
    /\ desers = <<>>
    /\ target = "Ignored"
    /\ usage = "single"
    /\ task = 0
    /\ doc \in SpanDocuments
    /\ \E pos \in 0..(Len(Documents[doc].events) - 1) :
          ctl = [t |-> "map", pos |-> pos, state |-> "StartKey", calls |-> <<>>]
    /\ stack = <<>>
    /\ cells = <<>>
    /\ des = <<>>
    /\ accs = <<>>
    /\ entered = <<>>

\* the client may call again: no call has panicked
MapOpen ==
    /\ ctl.t = "map"
    /\ Len(ctl.calls) < MaxCalls
    /\ \A i \in 1..Len(ctl.calls) : ~ctl.calls[i].res.halt

\* the client calls next_key_seed
spanned_next_key ==
    /\ MapOpen
    /\ LET key == SpannedMapAccess_next_key_seed(ctl.state)
       IN  ctl' = [ctl EXCEPT !.state = key.state,
                              !.calls = Append(@, [fn |-> "next_key_seed", entry |-> "",
                                                   res |-> key.res])]
    /\ UNCHANGED <<desers, task, doc, stack, cells, des, accs, entered, target, usage>>

\* the client calls next_value_seed: the entry the seed receives
spanned_next_value ==
    /\ MapOpen
    /\ LET value == SpannedMapAccess_next_value_seed(ctl.state)
           entry == IF value.res.ok THEN value.res.val ELSE ""
           res == CASE entry = "start" -> Ok(start_location(Document, ctl.pos))
                    [] entry = "length" -> current_item_length(Document, ctl.pos)
                    [] entry = "path" -> Ok(path_to_string(<<>>))
                    [] entry = "value" -> Ok(<<>>)
                    [] OTHER -> value.res
       IN  ctl' = [ctl EXCEPT !.state = value.state,
                              !.calls = Append(@, [fn |-> "next_value_seed",
                                                   entry |-> entry, res |-> res])]
    /\ UNCHANGED <<desers, task, doc, stack, cells, des, accs, entered, target, usage>>

NextSpanned ==
    \/ spanned_next_key
    \/ spanned_next_value

\* the engine, and the free client of a span map access
SpecSpanned == (Init \/ InitSpanned) /\ [][Next \/ NextSpanned]_vars

\* the keys Spanned's Visitor::visit_map compares next_key with, in its order
visit_map_keys == <<START, VALUE, LENGTH, PATH>>
\* what it takes after each of them
visit_map_entries == <<"start", "value", "length", "path">>

IsKey(call) == call.fn = "next_key_seed"
YieldsSome(call) == IsKey(call) /\ call.res.ok /\ call.res.val.some
YieldsNone(call) == IsKey(call) /\ call.res.ok /\ ~call.res.val.some

\* the calls of a client that follows serde's MapAccess protocol: a key
\* first, a value after each key that was Some, a key after each value, and
\* after None nothing but further next_key calls
Alternating(calls) ==
    \A i \in 1..Len(calls) :
        IF IsKey(calls[i])
        THEN i = 1 \/ ~IsKey(calls[i - 1]) \/ YieldsNone(calls[i - 1])
        ELSE i > 1 /\ YieldsSome(calls[i - 1])

ProtocolHalts == {"Invalid state", "not yet implemented"}
KeyNotFound ==
    {"spanned start key not found", "spanned value key not found",
     "spanned length key not found"}

\* C34: the span map access is a linear protocol.  Under calls that
\* alternate next_key_seed and next_value_seed its first four keys are start,
\* value, length and path, in the order in which Spanned's visit_map asks
\* for them, each followed by its entry, and every next_key_seed after them
\* returns None; no such call reaches unreachable!("Invalid state") or
\* todo!().  In the engine a span capture is in state LengthKey while its
\* value is decoded, and no operation returns a "spanned .. key not found"
\* error or one of those two halts.
C34_SpannedProtocol ==
    /\ ctl.t = "map" /\ Alternating(ctl.calls) =>
          \A i \in 1..Len(ctl.calls) :
              LET call == ctl.calls[i]
                  n == (i + 1) \div 2
              IN  /\ call.res.halt => call.res.msg \notin ProtocolHalts
                  /\ IF i > 2 * Len(visit_map_keys) THEN YieldsNone(call)
                     ELSE IF IsKey(call)
                     THEN YieldsSome(call) /\ call.res.val.v = visit_map_keys[n]
                     ELSE call.entry = visit_map_entries[n]
    /\ \A j \in 1..Len(stack) :
          stack[j].k = "visit_spanned" => stack[j].state = "LengthKey"
    /\ ctl.t = "panic" => ctl.msg \notin ProtocolHalts
    /\ (ctl.t = "ret" /\ ~ctl.res.ok /\ ctl.res.err.kind = "Message") =>
          ctl.res.err.what \notin KeyNotFound

\* C34 witness: a client has taken the four entries in turn and has then
\* been told None twice
C34_Witness ==
    /\ ctl.t = "map" /\ Alternating(ctl.calls)
    /\ Len(ctl.calls) = 2 * Len(visit_map_keys) + 2
    /\ YieldsNone(ctl.calls[Len(ctl.calls)])
    /\ ctl.calls[2 * Len(visit_map_keys)].entry = "path"

\* what a run of events asks of its surroundings: the End events that close
\* containers opened before it, the End events its own open containers wait
\* for, and whether every End inside it closed a container of its kind
Nests(ok, closes, opens) == [ok |-> ok, closes |-> closes, opens |-> opens]

\* a run followed by another: the first's innermost open containers are
\* closed by the second's first End events
Joined(l, r) ==
    LET k == IF Len(l.opens) < Len(r.closes) THEN Len(l.opens) ELSE Len(r.closes)
    IN  Nests(/\ l.ok /\ r.ok
              /\ \A x \in 1..k : l.opens[Len(l.opens) + 1 - x] = r.closes[x],
              l.closes \o SubSeq(r.closes, k + 1, Len(r.closes)),
              SubSeq(l.opens, 1, Len(l.opens) - k) \o r.opens)

RECURSIVE Unclosed(_, _, _)
\* the nesting of the events lo..hi, by halves
Unclosed(events, lo, hi) ==
    IF lo > hi THEN Nests(TRUE, <<>>, <<>>)
    ELSE IF lo = hi
    THEN CASE events[lo].type = "SequenceStart" -> Nests(TRUE, <<>>, <<"SequenceEnd">>)
           [] events[lo].type = "MappingStart" -> Nests(TRUE, <<>>, <<"MappingEnd">>)
           [] events[lo].type \in {"SequenceEnd", "MappingEnd"} ->
                 Nests(TRUE, <<events[lo].type>>, <<>>)
           [] OTHER -> Nests(TRUE, <<>>, <<>>)
    ELSE CHOOSE whole \in {Joined(l, r) : l \in {Unclosed(events, lo, (lo + hi) \div 2)},
                                          r \in {Unclosed(events, (lo + hi) \div 2 + 1, hi)}} :
             TRUE

\* the Start and End events of the document are balanced and properly nested
\* and every alias has its entry in the alias table
WellFormed(document) ==
    /\ \A whole \in {Unclosed(document.events, 1, Len(document.events))} :
          whole.ok /\ whole.closes = <<>> /\ whole.opens = <<>>
    /\ \A j \in 1..Len(document.events) :
          document.events[j].type = "Alias" => jump(document, document.events[j].id).some

WellFormedDocuments == {d \in DocIds : WellFormed(Documents[d])}

InternalDefects ==
    {"unexpected end of sequence", "unexpected end of mapping",
     "expected a SequenceEnd event", "expected a MappingEnd event", "unresolved alias"}

\* C35: on a document whose containers are balanced and whose aliases are all
\* in the alias table no step of the engine panics with "unexpected end of
\* sequence", "unexpected end of mapping", "expected a SequenceEnd event",
\* "expected a MappingEnd event" or "unresolved alias": an End event where a
\* node was asked for (the key of `{}` read as an enum's variant, the end of
\* a sequence shorter than the tuple) is answered with None or with an error.
C35_NoInternalDefect ==
    (task # 0 /\ ctl.t = "panic" /\ doc \in WellFormedDocuments) =>
        ctl.msg \notin InternalDefects

\* C35 witness: `{}` has been decoded as an enum, the MappingEnd met in the
\* place of the variant's key, and the decode has returned an error
C35_Witness ==
    /\ Returned(1) /\ target = "E" /\ doc = "dvempty" /\ doc \in WellFormedDocuments
    /\ ~desers[1].res.ok /\ desers[1].res.err.kind = "Message"

\* the step in which a span capture ends: the value has come back to
\* visit_spanned and the visitor takes the length and the path
SpanEnds == ctl.t = "ret" /\ stack # <<>> /\ Last(stack).k = "visit_spanned"

\* C36: span capture never indexes the events out of bounds: wherever it
\* begins, the root included, the step that ends it returns a value or an
\* error and does not panic, and the length it returns is not negative.
C36_SpanNeverHalts ==
    [][SpanEnds =>
          /\ ctl'.t # "panic"
          /\ ctl'.res.ok => ctl'.res.val.v.len >= 0]_vars

\* C37: the span captured for a mapping covers only that mapping: start +
\* len is not beyond the offset of the first event after the mapping's own
\* MappingEnd; the span of a mapping that is an element of a sequence does
\* not reach over the elements that follow it.
C37_MappingSpanTight ==
    [][SpanReturns =>
          LET f == Last(stack)
              item == Document.events[f.at + 1]
              span == ctl'.res.val.v
              after == PastNode(f.at)
          IN  (item.type = "MappingStart" /\ after < Len(Document.events)) =>
                  span.start + span.len <= Document.events[after + 1].mark.index]_vars

\* what automatic typing makes of a text: the integer it is, if it is one
AutoInt(text) == visit_int(text)
\* automatic typing classifies the text as a number, integer or float
AutoNumber(text) ==
    visit_untagged_scalar(text).visit \in {"u64", "i64", "u128", "i128", "f64"}

\* the integer n lies in the range of the type
InRange(n, ty) ==
    MagLeq(n.mag, CASE ty = "u64" -> U64Max
                    [] ty = "u128" -> U128Max
                    [] ty = "i64" -> IF n.neg THEN I64MinMag ELSE I64Max
                    [] ty = "i128" -> IF n.neg THEN I128MinMag ELSE I128Max)
        /\ (n.neg => ty \in {"i64", "i128"})

IntegerOps ==
    [deserialize_i64 |-> "i64", deserialize_u64 |-> "u64",
     deserialize_i128 |-> "i128", deserialize_u128 |-> "u128"]

\* a typed numeric or boolean operation has returned on an untagged scalar
TypedEnded ==
    /\ ctl.t = "ret" /\ "fn" \in DOMAIN ctl
    /\ ctl.fn \in NumericOps \cup {"deserialize_bool"}
    /\ ctl.arg.tag = NoTag

\* C38: typed numeric requests agree with automatic typing on plain untagged
\* scalars: an i64 / u64 / i128 / u128 request succeeds with n exactly when
\* automatic typing makes the text the integer n and n is in the range of the
\* type; an f64 request succeeds only on a text that automatic typing makes
\* a number; quoted and block scalars are rejected by every typed numeric and
\* boolean request.
C38_TypedAgreesWithAuto ==
    TypedEnded =>
        LET text == ctl.arg.value
            auto == AutoInt(text)
        IN  /\ ctl.arg.style # "Plain" => ~ctl.res.ok
            /\ (ctl.arg.style = "Plain" /\ ctl.fn \in DOMAIN IntegerOps) =>
                  /\ ctl.res.ok <=> (auto.some /\ InRange(auto.v.v, IntegerOps[ctl.fn]))
                  /\ ctl.res.ok => ctl.res.val.v = auto.v.v
            /\ (ctl.arg.style = "Plain" /\ ctl.fn = "deserialize_f64" /\ ctl.res.ok) =>
                  AutoNumber(text)

\* the step in which de calls f on Deserializer i
DeStarts(i) == ~desers[i].called /\ desers'[i].called /\ task' = i

\* C39: what de does depends on the state of the Deserializer.  On a
\* Document handed out by next() it decodes that document from position 0 with
\* a budget of 128 and returns what the decode returned, whatever else the
\* stream holds.  On a Deserializer that next() has made Iterable it returns
\* MoreThanOneDocument at once, no cursor being made and no event read.  On a
\* fresh input with two or more documents it decodes the first and returns
\* the decode's error if it failed and MoreThanOneDocument if it succeeded,
\* also when the second document is one with a syntax error.
C39_DeByState ==
    [][\A i \in 1..Len(desers) :
          /\ (desers[i].progress = "Document" /\ DeStarts(i)) =>
                /\ doc' = desers[i].doc
                /\ cells' = <<0>>
                /\ des' = <<Cursor(1, Path_Root, 128)>>
          /\ (desers[i].progress = "Document" /\ DeReturns(i)) =>
                task = i /\ desers'[i].res = ctl.res
          /\ (desers[i].progress = "Iterable" /\ DeReturns(i)) =>
                /\ task = 0
                /\ desers'[i].res = Err(more_than_one_document)
                /\ UNCHANGED <<ctl, cells, des, doc>>
          /\ (Fresh(i) /\ LoaderBuilt(i) /\ Len(desers[i].docs) >= 2 /\ DeStarts(i)) =>
                doc' = desers[i].docs[1] /\ cells' = <<0>>
          /\ (Fresh(i) /\ LoaderBuilt(i) /\ Len(desers[i].docs) >= 2 /\ DeReturns(i)) =>
                /\ task = i
                /\ desers'[i].res = IF ctl.res.ok THEN Err(more_than_one_document)
                                    ELSE ctl.res]_vars

\* C39 witness: of the stream "1", "]" the first document has been handed
\* out and decoded to a value, and de on the Deserializer that was iterated
\* has failed with MoreThanOneDocument
C39_Witness ==
    /\ desers[1].docs = <<"d1", "dsyntax">>
    /\ desers[1].progress = "Iterable" /\ Returned(1)
    /\ desers[1].res = Err(more_than_one_document)
    /\ Len(desers[1].out) >= 1 /\ desers[1].out[1] # 0
    /\ Returned(desers[1].out[1]) /\ desers[desers[1].out[1]].res.ok

\* C39 witness of the fresh case: de on the fresh stream "1", "]" has decoded
\* the first document and failed with MoreThanOneDocument
C39_FreshWitness ==
    /\ desers[1].docs = <<"d1", "dsyntax">>
    /\ Fresh(1) /\ Returned(1) /\ desers[1].res = Err(more_than_one_document)

\* the error carries a source mark: a Message with a stamped position, a
\* syntax error of the Source, RecursionLimitExceeded, UnknownAnchor, or a
\* Shared wrapper of one of these
CarriesMark(error) ==
    LET e == error_shared(error)
    IN  \/ e.kind = "Message" /\ e.pos.some
        \/ e.kind \in {"Libyaml", "RecursionLimitExceeded", "UnknownAnchor"}
\* the mark it carries
MarkCarried(error) ==
    LET e == error_shared(error)
    IN  IF e.kind = "Message" THEN e.pos.mark ELSE e.mark

\* err.location() has been called on the error that Deserializer i returned
Located(i) == desers[i].called /\ task # i /\ desers[i].loc.some

\* C40: Error::location() returns a location for every error that carries a
\* mark (a Message with a position, a syntax error, RecursionLimitExceeded,
\* UnknownAnchor, and a Shared wrapper of any of them), with the mark's offset
\* and its line and column plus one, and None only for an error without a mark.
C40_LocationOfMark ==
    \A i \in 1..Len(desers) :
        Located(i) =>
            LET e == desers[i].res.err
                l == desers[i].loc.v
            IN  /\ l.some <=> CarriesMark(e)
                /\ l.some =>
                      /\ l.v.index = MarkCarried(e).index
                      /\ l.v.line = MarkCarried(e).line + 1
                      /\ l.v.column = MarkCarried(e).column + 1

=============================================================================
